---- MODULE Spec2Model ----
(***************************************************************************)
(* Model of the DICOM SR dose extraction engine:                           *)
(*   DICOMDoseExtractor.py        CT dose report -> CTScanReport           *)
(*   DICOMMamographyExtractor.py  mammography SR  -> rows of a worksheet   *)
(*   DICOMDoseExcel.py            calculate_age of the JSON -> Excel step  *)
(*                                                                         *)
(* Data representation.  A pydicom Dataset is a record.  An attribute that *)
(* Python reads with hasattr/getattr and that holds a sequence is a tuple: *)
(* <<>> is "attribute absent or empty sequence", <<v>> holds its first     *)
(* item.  ContentSequence keeps a separate HasContentSequence flag because *)
(* the code tells hasattr(item, 'ContentSequence') from an empty sequence. *)
(* A Python value that may be None is a tuple too: <<>> is None, <<v>> is  *)
(* the value v.  Opaque text is a TLA+ string, "" being the empty string;  *)
(* text that the code slices or parses (dates) is a tuple of characters.   *)
(***************************************************************************)
EXTENDS Integers, Sequences, FiniteSets, TLC

VARIABLES
    pc,               \* position of the running operation
    call,             \* the operation applied and its arguments
    ret,              \* the value it returned
    dicom_files,      \* batch run: the discovered documents, in discovery order
    i,                \* batch run: number of documents attempted so far
    reports,          \* batch run: the collected reports / worksheet rows
    processed_count,  \* batch run: documents counted as processed
    error_count,      \* batch run: documents counted as errors
    attempts,         \* batch run: history of the documents attempted (ghost)
    concept_codes     \* the extractors' code tables, as __init__ builds them

vars == <<pc, call, ret, dicom_files, i, reports, processed_count, error_count, attempts,
          concept_codes>>

\* ------------------------------------------------------------------ bounds
MaxRoot == 2       \* children of a document's root ContentSequence
MaxChildren == 3   \* children handed to aggregate_multiple_values
MaxValue == 2      \* small measured values 0..MaxValue (besides 80, 90, 100)
MaxReports == 2     \* reports in the JSON file handed to json_to_excel
MaxFiles == 3      \* documents of a batch run

None == <<>>
Some(v) == <<v>>

\* ------------------------------------------------------------ Python helpers
\* min, max and sum of a non-empty list of numbers
RECURSIVE SumSeq(_)
SumSeq(s) == IF s = <<>> THEN 0 ELSE Head(s) + SumSeq(Tail(s))

MinSeq(s) == CHOOSE m \in {s[k] : k \in 1..Len(s)} : \A k \in 1..Len(s) : m <= s[k]

MaxSeq(s) == CHOOSE m \in {s[k] : k \in 1..Len(s)} : \A k \in 1..Len(s) : m >= s[k]

\* ------------------------------------------------------ concept code tables
CT_codes ==
    [device_observer_name |-> "121013", device_observer_manufacturer |-> "121014",
     device_observer_model |-> "121015", device_observer_serial |-> "121016",
     device_observer_location |-> "121017",
     start_irradiation |-> "113809", end_irradiation |-> "113810",
     total_events |-> "113812", total_dlp |-> "113813",
     ct_acquisition |-> "113819", acquisition_protocol |-> "125203",
     target_region |-> "123014", acquisition_type |-> "113820",
     procedure_context |-> "G-C32C", irradiation_event_uid |-> "113769",
     comment |-> "121106",
     acquisition_params |-> "113822", exposure_time |-> "113824",
     scanning_length |-> "113825", single_collimation |-> "113826",
     total_collimation |-> "113827", num_xray_sources |-> "113823",
     pitch_factor |-> "113828",
     xray_source_params |-> "113831", xray_source_id |-> "113832",
     kvp |-> "113733", max_tube_current |-> "113833", tube_current |-> "113734",
     exposure_time_per_rotation |-> "113834",
     ct_dose |-> "113829", mean_ctdivol |-> "113830", phantom_type |-> "113835",
     dlp |-> "113838", ssde |-> "113930", ctdivol_alert_value |-> "113904"]

CT_accumulated_dose == "113811"

Mammo_codes ==
    [accumulated_dose_data |-> "113702", accumulated_agd |-> "111637",
     irradiation_event |-> "113706", irradiation_event_uid |-> "113769",
     datetime_started |-> "111526", irradiation_event_type |-> "113721",
     acquisition_protocol |-> "125203",
     anatomical_structure |-> "T-D0005", laterality |-> "G-C171",
     image_view |-> "111031", target_region |-> "123014",
     kvp |-> "113733", tube_current |-> "113734", exposure_time |-> "113824",
     pulse_width |-> "113793", number_of_pulses |-> "113768",
     irradiation_duration |-> "113742", focal_spot_size |-> "113766",
     average_glandular_dose |-> "111631", entrance_exposure |-> "111636",
     half_value_layer |-> "111634", reference_point_def |-> "113780",
     compression_thickness |-> "111633", distance_source_to_rp |-> "113737",
     collimated_field_area |-> "113790", collimated_field_height |-> "113788",
     collimated_field_width |-> "113789",
     anode_target_material |-> "111632", xray_filters |-> "113771",
     filter_type |-> "113772", filter_material |-> "113757",
     xray_grid |-> "111635", mechanical_config |-> "113956",
     positioner_angle |-> "112011",
     acquisition_plane |-> "113764", acquired_image |-> "113795",
     dose_source |-> "113854"]

\* ------------------------------------------------------------ content nodes
\* A content item with no attribute set.
EmptyItem ==
    [ConceptNameCodeSequence |-> <<>>,   \* <<>> or <<CodeValue>>
     HasContentSequence |-> FALSE,
     ContentSequence |-> <<>>,
     TextValue |-> "",
     ConceptCodeSequence |-> <<>>,       \* <<>> or <<CodeMeaning>>
     MeasuredValueSequence |-> <<>>,     \* <<>> or <<[NumericValue, MeasurementUnitsCodeSequence]>>
     UID |-> "",
     DateTime |-> <<>>]                  \* characters of a DICOM DT value

Coded(code) == [EmptyItem EXCEPT !.ConceptNameCodeSequence = <<code>>]

TextItem(code, text) == [Coded(code) EXCEPT !.TextValue = text]

MeaningItem(code, meaning) == [Coded(code) EXCEPT !.ConceptCodeSequence = <<meaning>>]

NumItem(code, value, unit) ==
    [Coded(code) EXCEPT !.MeasuredValueSequence =
        <<[NumericValue |-> value,
           MeasurementUnitsCodeSequence |-> IF unit = "" THEN <<>> ELSE <<unit>>]>>]

Container(code, children) ==
    [Coded(code) EXCEPT !.HasContentSequence = TRUE, !.ContentSequence = children]

\* ------------------------------------------------- numeric values (VR DS)
\* NumericValue is held as the decimal string of the file.  pydicom turns it
\* into a DSfloat when the attribute is read: a string that is no number
\* raises there, and a DSfloat is falsy exactly when its value is 0.
NumDomain == (0..MaxValue) \cup {80, 90, 100}

\* NumericValue strings with four decimals, and their values in ten-thousandths
FourDecimals == [s \in {"2.0004"} |-> 20000 + 4]

IsNumeric(s) == s \in DOMAIN FourDecimals \/ \E n \in NumDomain : ToString(n) = s

ParseNum(s) == CHOOSE n \in NumDomain : ToString(n) = s

\* reading measured_value.NumericValue raises (ValueError)
NumRaises(s) == s # "" /\ ~IsNumeric(s)

\* round(x, 3) keeps thousandths
Milli == 1000

\* A float is held in ten-thousandths, one decimal more than round(x, 3)
\* keeps: 90.0 is 900000.
FloatUnit == 10 * Milli

\* float(s) of a numeric string
ParseFloat(s) == IF s \in DOMAIN FourDecimals THEN FourDecimals[s] ELSE ParseNum(s) * FloatUnit

\* Python truth value of NumericValue ('' when the attribute is absent)
NumTruthy(s) == s # "" /\ ParseFloat(s) # 0

\* ------------------------------------------------- typed value extractors
\* hasattr(item, 'ConceptNameCodeSequence') and item.ConceptNameCodeSequence
\* and getattr(item.ConceptNameCodeSequence[0], 'CodeValue', '') == code_value
HasConceptCode(item, code_value) ==
    item.ConceptNameCodeSequence # <<>> /\ item.ConceptNameCodeSequence[1] = code_value

get_text_value(content_item) == content_item.TextValue

get_code_meaning(content_item) ==
    IF content_item.ConceptCodeSequence # <<>>
    THEN content_item.ConceptCodeSequence[1]
    ELSE ""

get_numeric_value_with_unit(content_item) ==
    IF content_item.MeasuredValueSequence = <<>> THEN ""
    ELSE LET measured_value == content_item.MeasuredValueSequence[1]
             numeric_value == measured_value.NumericValue
             unit == IF measured_value.MeasurementUnitsCodeSequence # <<>>
                     THEN measured_value.MeasurementUnitsCodeSequence[1]
                     ELSE ""
         IN  IF NumRaises(numeric_value) THEN ""
             ELSE IF NumTruthy(numeric_value) /\ unit # ""
                  THEN numeric_value \o " " \o unit
             ELSE IF NumTruthy(numeric_value) THEN numeric_value
             ELSE ""

get_numeric_value_only(content_item) ==
    IF content_item.MeasuredValueSequence = <<>> THEN ""
    ELSE LET numeric_value == content_item.MeasuredValueSequence[1].NumericValue
         IN  IF NumRaises(numeric_value) THEN ""
             ELSE IF NumTruthy(numeric_value) THEN numeric_value ELSE ""

\* returns None or the float
get_numeric_value_as_float(content_item) ==
    IF content_item.MeasuredValueSequence = <<>> THEN None
    ELSE LET numeric_value == content_item.MeasuredValueSequence[1].NumericValue
         IN  IF NumRaises(numeric_value) THEN None
             ELSE IF NumTruthy(numeric_value) THEN Some(ParseFloat(numeric_value))
             ELSE None

\* ------------------------------------------------------------ code locator
RECURSIVE FindFrom(_, _, _)
FindFrom(content_sequence, code_value, k) ==
    IF k > Len(content_sequence) THEN None
    ELSE IF HasConceptCode(content_sequence[k], code_value)
         THEN Some(content_sequence[k])
         ELSE FindFrom(content_sequence, code_value, k + 1)

\* None or the first item whose concept code is code_value
\* the lookup that also descends into the children of the items it passes
RECURSIVE FindDeep(_, _, _)
FindDeep(content_sequence, code_value, k) ==
    IF k > Len(content_sequence) THEN None
    ELSE IF HasConceptCode(content_sequence[k], code_value)
         THEN Some(content_sequence[k])
         ELSE IF content_sequence[k].HasContentSequence
                 /\ FindDeep(content_sequence[k].ContentSequence, code_value, 1) # None
              THEN FindDeep(content_sequence[k].ContentSequence, code_value, 1)
              ELSE FindDeep(content_sequence, code_value, k + 1)

find_content_by_code_Recursive(content_sequence, code_value) ==
    FindDeep(content_sequence, code_value, 1)

\* the lookup that keeps the last match instead of returning at the first
find_content_by_code_LastMatch(content_sequence, code_value) ==
    LET hits == {k \in 1..Len(content_sequence) :
                    HasConceptCode(content_sequence[k], code_value)}
    IN  IF hits = {} THEN None
        ELSE Some(content_sequence[CHOOSE k \in hits : \A j \in hits : j <= k])

find_content_by_code(content_sequence, code_value) ==
    FindFrom(content_sequence, code_value, 1)

\* ------------------------------------------------- measurement aggregator
\* round(num / den, 3) of floats: the nearest thousandth, ties to even, for
\* num >= 0, den > 0
Round3(num, den) ==
    LET step == FloatUnit \div Milli
        q == num \div (den * step)
        r == num % (den * step)
    IN  step * (IF 2 * r < den * step THEN q
                ELSE IF 2 * r > den * step THEN q + 1
                ELSE IF q % 2 = 0 THEN q ELSE q + 1)

\* the loop of aggregate_multiple_values: the list `values` after items k..end
RECURSIVE CollectValues(_, _, _, _)
CollectValues(content_sequence, code_value, k, values) ==
    IF k > Len(content_sequence) THEN values
    ELSE LET item == content_sequence[k]
             value == get_numeric_value_only(item)
         IN  IF HasConceptCode(item, code_value) /\ value # "" /\ IsNumeric(value)
             THEN CollectValues(content_sequence, code_value, k + 1,
                                Append(values, ParseFloat(value)))
             ELSE CollectValues(content_sequence, code_value, k + 1, values)

\* the aggregator reporting zeros, not None, when nothing was collected
aggregate_multiple_values_zeros(content_sequence, code_value) ==
    LET values == CollectValues(content_sequence, code_value, 1, <<>>)
    IN  IF values # <<>>
        THEN [min |-> Some(Round3(MinSeq(values), 1)),
              max |-> Some(Round3(MaxSeq(values), 1)),
              avg |-> Some(Round3(SumSeq(values), Len(values))),
              count |-> Len(values)]
        ELSE [min |-> Some(0), max |-> Some(0), avg |-> Some(0), count |-> 0]

aggregate_multiple_values(content_sequence, code_value) ==
    LET values == CollectValues(content_sequence, code_value, 1, <<>>)
    IN  IF values # <<>>
        THEN [min |-> Some(Round3(MinSeq(values), 1)),
              max |-> Some(Round3(MaxSeq(values), 1)),
              avg |-> Some(Round3(SumSeq(values), Len(values))),
              count |-> Len(values)]
        ELSE [min |-> None, max |-> None, avg |-> None, count |-> 0]

\* ---------------------------------------------------------- date normalizer
\* Text that is sliced or parsed is a tuple of one-character strings.
Digits == <<"0", "1", "2", "3", "4", "5", "6", "7", "8", "9">>

IsDigit(c) == \E k \in 1..10 : Digits[k] = c

DigitVal(c) == (CHOOSE k \in 1..10 : Digits[k] = c) - 1

\* str(n) of an integer, as characters
RECURSIVE NatChars(_)
NatChars(n) == IF n < 10 THEN <<Digits[n + 1]>>
               ELSE NatChars(n \div 10) \o <<Digits[(n % 10) + 1]>>

IntChars(n) == IF n < 0 THEN <<"-">> \o NatChars(0 - n) ELSE NatChars(n)

\* n as exactly `width` digits (the fixed-width fields of a DICOM DA/TM value)
RECURSIVE FixedDigits(_, _)
FixedDigits(n, width) ==
    IF width = 0 THEN <<>>
    ELSE FixedDigits(n \div 10, width - 1) \o <<Digits[(n % 10) + 1]>>

\* Python s[a:b] (0-based, end exclusive, clipped to the string)
Slice(s, a, b) ==
    LET hi == IF b > Len(s) THEN Len(s) ELSE b
    IN  IF a >= hi THEN <<>> ELSE SubSeq(s, a + 1, hi)

\* int(s) of a two-character string: digits, an optional sign, blanks around
Int2Ok(s) ==
    /\ Len(s) = 2
    /\ \/ IsDigit(s[1]) /\ IsDigit(s[2])
       \/ s[1] \in {"-", "+", " "} /\ IsDigit(s[2])
       \/ IsDigit(s[1]) /\ s[2] = " "

Int2(s) ==
    IF IsDigit(s[1]) /\ IsDigit(s[2]) THEN 10 * DigitVal(s[1]) + DigitVal(s[2])
    ELSE IF s[1] = "-" THEN 0 - DigitVal(s[2])
    ELSE IF IsDigit(s[2]) THEN DigitVal(s[2])
    ELSE DigitVal(s[1])

months ==
    << <<>>, <<"J", "a", "n">>, <<"F", "e", "b">>, <<"M", "a", "r">>,
       <<"A", "p", "r">>, <<"M", "a", "y">>, <<"J", "u", "n">>,
       <<"J", "u", "l">>, <<"A", "u", "g">>, <<"S", "e", "p">>,
       <<"O", "c", "t">>, <<"N", "o", "v">>, <<"D", "e", "c">> >>

\* months[k] of the 13-entry Python list: k in -13..12, else IndexError
MonthIndexOk(k) == k >= 0 - Len(months) /\ k < Len(months)

MonthAt(k) == IF k >= 0 THEN months[k + 1] ELSE months[Len(months) + k + 1]

\* a normalizer that keeps the two day characters as they are
format_date_PaddedDay(date_str) ==
    IF date_str = <<>> \/ Len(date_str) < 8 THEN <<>>
    ELSE LET year == Slice(date_str, 0, 4)
             month == Slice(date_str, 4, 6)
             day == Slice(date_str, 6, 8)
         IN  IF ~Int2Ok(month) THEN date_str
             ELSE IF ~MonthIndexOk(Int2(month)) THEN date_str
             ELSE IF ~Int2Ok(day) THEN date_str
             ELSE MonthAt(Int2(month)) \o <<" ">> \o day \o <<",", " ">> \o year

format_date(date_str) ==
    IF date_str = <<>> \/ Len(date_str) < 8 THEN <<>>
    ELSE LET year == Slice(date_str, 0, 4)
             month == Slice(date_str, 4, 6)
             day == Slice(date_str, 6, 8)
         IN  IF ~Int2Ok(month) THEN date_str
             ELSE IF ~MonthIndexOk(Int2(month)) THEN date_str
             ELSE IF ~Int2Ok(day) THEN date_str
             ELSE MonthAt(Int2(month)) \o <<" ">> \o IntChars(Int2(day))
                  \o <<",", " ">> \o year

\* study date with the study time appended (extract_excel_data / extract_patient_info)
study_date_with_time(study_date_raw, study_time_raw) ==
    LET study_date == IF study_date_raw # <<>> THEN format_date(study_date_raw) ELSE <<>>
    IN  IF study_date # <<>> /\ study_time_raw # <<>> /\ Len(study_time_raw) >= 6
        THEN study_date \o <<",", " ">> \o Slice(study_time_raw, 0, 2) \o <<":">>
             \o Slice(study_time_raw, 2, 4) \o <<":">> \o Slice(study_time_raw, 4, 6)
        ELSE study_date

\* ------------------------------------------------------------- age calculator
\* datetime.strptime.  A format is a tuple of tokens: a directive ("%b", "%d",
\* ...), " " for a run of white space (the format's blank becomes \s+), or a
\* literal character.  Month names are matched in the case the normalizer
\* writes them.
month_names ==
    << <<"J", "a", "n", "u", "a", "r", "y">>, <<"F", "e", "b", "r", "u", "a", "r", "y">>,
       <<"M", "a", "r", "c", "h">>, <<"A", "p", "r", "i", "l">>, <<"M", "a", "y">>,
       <<"J", "u", "n", "e">>, <<"J", "u", "l", "y">>, <<"A", "u", "g", "u", "s", "t">>,
       <<"S", "e", "p", "t", "e", "m", "b", "e", "r">>, <<"O", "c", "t", "o", "b", "e", "r">>,
       <<"N", "o", "v", "e", "m", "b", "e", "r">>, <<"D", "e", "c", "e", "m", "b", "e", "r">> >>

StartsWith(s, prefix) == Len(s) >= Len(prefix) /\ SubSeq(s, 1, Len(prefix)) = prefix

AllDigits(s) == \A k \in 1..Len(s) : IsDigit(s[k])

RECURSIVE NatOf(_)
NatOf(s) == IF s = <<>> THEN 0 ELSE 10 * NatOf(SubSeq(s, 1, Len(s) - 1)) + DigitVal(s[Len(s)])

\* one or two digits whose value lies in lo..hi; a lone "0" only when lo = 0
NumberAlts(s, lo, hi) ==
    {<<n, NatOf(SubSeq(s, 1, n))>> : n \in {n \in 1..2 :
        /\ Len(s) >= n
        /\ AllDigits(SubSeq(s, 1, n))
        /\ NatOf(SubSeq(s, 1, n)) \in lo..hi
        /\ (n = 1 /\ lo > 0 => s[1] # "0")}}

\* the ways token t matches a prefix of s: <<characters consumed, value>>
Alternatives(t, s) ==
    IF t = "%Y" THEN
        IF Len(s) >= 4 /\ AllDigits(SubSeq(s, 1, 4)) THEN {<<4, NatOf(SubSeq(s, 1, 4))>>} ELSE {}
    ELSE IF t = "%d" THEN
        NumberAlts(s, 1, 31) \cup
        (IF Len(s) >= 2 /\ s[1] = " " /\ IsDigit(s[2]) /\ s[2] # "0"
         THEN {<<2, DigitVal(s[2])>>} ELSE {})
    ELSE IF t \in {"%m", "%I"} THEN NumberAlts(s, 1, 12)
    ELSE IF t = "%M" THEN NumberAlts(s, 0, 59)
    ELSE IF t = "%S" THEN NumberAlts(s, 0, 61)
    ELSE IF t = "%p" THEN
        IF StartsWith(s, <<"A", "M">>) \/ StartsWith(s, <<"P", "M">>) THEN {<<2, 0>>} ELSE {}
    ELSE IF t = "%b" THEN
        {<<3, k - 1>> : k \in {k \in 2..Len(months) : StartsWith(s, months[k])}}
    ELSE IF t = "%B" THEN
        {<<Len(month_names[k]), k>> : k \in {k \in 1..Len(month_names) : StartsWith(s, month_names[k])}}
    ELSE IF t = " " THEN
        {<<n, 0>> : n \in {n \in 1..Len(s) : \A k \in 1..n : s[k] = " "}}
    ELSE IF Len(s) >= 1 /\ s[1] = t THEN {<<1, 0>>} ELSE {}

SetField(f, t, v) ==
    IF t = "%Y" THEN [f EXCEPT !.year = v]
    ELSE IF t \in {"%b", "%B", "%m"} THEN [f EXCEPT !.month = v]
    ELSE IF t = "%d" THEN [f EXCEPT !.day = v]
    ELSE f

\* the field assignments with which fmt matches the whole of s
RECURSIVE Parse(_, _, _)
Parse(fmt, s, f) ==
    IF fmt = <<>> THEN (IF s = <<>> THEN {f} ELSE {})
    ELSE UNION {Parse(Tail(fmt), SubSeq(s, a[1] + 1, Len(s)), SetField(f, Head(fmt), a[2])) :
                a \in Alternatives(Head(fmt), s)}

IsLeap(y) == (y % 4 = 0 /\ y % 100 # 0) \/ y % 400 = 0

DaysInMonth(y, m) ==
    IF m = 2 THEN (IF IsLeap(y) THEN 29 ELSE 28)
    ELSE IF m \in {4, 6, 9, 11} THEN 30 ELSE 31

\* datetime(year, month, day) does not raise ValueError
ValidDate(f) ==
    /\ f.year >= 1
    /\ f.month \in 1..12
    /\ f.day >= 1 /\ f.day <= DaysInMonth(f.year, f.month)

\* the dates strptime(s, fmt) returns: empty when it raises ValueError
strptime(s, fmt) ==
    {f \in Parse(fmt, s, [year |-> 1900, month |-> 1, day |-> 1]) : ValidDate(f)}

\* str.strip()
RECURSIVE LStrip(_)
LStrip(s) == IF s # <<>> /\ Head(s) = " " THEN LStrip(Tail(s)) ELSE s

RECURSIVE RStrip(_)
RStrip(s) == IF s # <<>> /\ s[Len(s)] = " " THEN RStrip(SubSeq(s, 1, Len(s) - 1)) ELSE s

Strip(s) == RStrip(LStrip(s))

\* the loop "for fmt in formats: try strptime ... break": None or the first date
RECURSIVE FirstParse(_, _, _)
FirstParse(s, formats, k) ==
    IF k > Len(formats) THEN None
    ELSE IF strptime(Strip(s), formats[k]) # {}
         THEN Some(CHOOSE f \in strptime(Strip(s), formats[k]) : TRUE)
         ELSE FirstParse(s, formats, k + 1)

\* a search that never finds a year
YearSearch_NoMatch(s) == None

\* re.search(r'(\d{4})', s): None or the number of the leftmost four digits
YearSearch(s) ==
    LET hits == {k \in 1..(Len(s) - 3) : AllDigits(SubSeq(s, k, k + 3))}
    IN  IF hits = {} THEN None
        ELSE Some(NatOf(SubSeq(s, CHOOSE k \in hits : \A j \in hits : k <= j,
                                  (CHOOSE k \in hits : \A j \in hits : k <= j) + 3)))

fmt_b_d_Y == <<"%b", " ", "%d", ",", " ", "%Y">>
fmt_B_d_Y == <<"%B", " ", "%d", ",", " ", "%Y">>
fmt_Y_m_d == <<"%Y", "-", "%m", "-", "%d">>
fmt_d_m_Y == <<"%d", "/", "%m", "/", "%Y">>
fmt_m_d_Y == <<"%m", "/", "%d", "/", "%Y">>
fmt_time_p == <<",", " ", "%I", ":", "%M", ":", "%S", " ", "%p">>

date_formats == <<fmt_b_d_Y, fmt_B_d_Y, fmt_Y_m_d, fmt_d_m_Y, fmt_m_d_Y>>

\* DICOMMamographyExtractor.calculate_age: exam formats, date-only first
exam_formats == date_formats \o <<fmt_b_d_Y \o fmt_time_p, fmt_B_d_Y \o fmt_time_p>>

\* DICOMDoseExcel.calculate_age: exam formats, date-with-time first
excel_exam_formats == <<fmt_b_d_Y \o fmt_time_p, fmt_B_d_Y \o fmt_time_p>> \o date_formats

\* the birthday-adjusted difference of two dates
AgeBetween(birth_date, exam_date) ==
    LET age == exam_date.year - birth_date.year
    IN  IF exam_date.month < birth_date.month
           \/ (exam_date.month = birth_date.month /\ exam_date.day < birth_date.day)
        THEN age - 1
        ELSE age

UnknownAge == None

\* DICOMMamographyExtractor.calculate_age: None is the marker '-', <<n>> the int n
calculate_age(birth_date_str, exam_date_str) ==
    IF birth_date_str = <<>> \/ exam_date_str = <<>> THEN UnknownAge
    ELSE LET parsed_birth == FirstParse(birth_date_str, date_formats, 1)
             parsed_exam == FirstParse(exam_date_str, exam_formats, 1)
             birth_match == YearSearch(birth_date_str)
             exam_match == YearSearch(exam_date_str)
             \* datetime(year, 1, 1) / datetime(year, 6, 15) raise for year 0
             birth_raises == parsed_birth = None /\ birth_match # None /\ birth_match[1] < 1
             birth_date == IF parsed_birth # None THEN parsed_birth
                           ELSE IF birth_match # None
                                THEN Some([year |-> birth_match[1], month |-> 1, day |-> 1])
                                ELSE None
             exam_raises == parsed_exam = None /\ exam_match # None /\ exam_match[1] < 1
             exam_date == IF parsed_exam # None THEN parsed_exam
                          ELSE IF exam_match # None
                               THEN Some([year |-> exam_match[1], month |-> 6, day |-> 15])
                               ELSE None
         IN  IF birth_raises \/ exam_raises THEN UnknownAge
             ELSE IF birth_date # None /\ exam_date # None
                  THEN Some(AgeBetween(birth_date[1], exam_date[1]))
                  ELSE UnknownAge

\* DICOMDoseExcel.calculate_age: returns the characters of '-' or of str(age)
excel_calculate_age(birth_date_str, exam_date_str) ==
    IF birth_date_str = <<>> \/ exam_date_str = <<>> THEN <<"-">>
    ELSE LET parsed_birth == FirstParse(birth_date_str, date_formats, 1)
             parsed_exam == FirstParse(exam_date_str, excel_exam_formats, 1)
             birth_year_match == YearSearch(birth_date_str)
             exam_year_match == YearSearch(exam_date_str)
             birth_date == IF parsed_birth # None THEN parsed_birth[1]
                           ELSE [year |-> birth_year_match[1], month |-> 1, day |-> 1]
             exam_date == IF parsed_exam # None THEN parsed_exam[1]
                          ELSE [year |-> exam_year_match[1], month |-> 6, day |-> 15]
             \* the handler of "except Exception": the difference of the bare years
             on_error == IF birth_year_match # None /\ exam_year_match # None
                         THEN IntChars(exam_year_match[1] - birth_year_match[1])
                         ELSE <<"-">>
         IN  IF parsed_birth = None /\ birth_year_match = None THEN <<"-">>
             ELSE IF parsed_birth = None /\ birth_year_match[1] < 1 THEN on_error
             ELSE IF parsed_exam = None /\ exam_year_match = None THEN <<"-">>
             ELSE IF parsed_exam = None /\ exam_year_match[1] < 1 THEN on_error
             ELSE IntChars(AgeBetween(birth_date, exam_date))

\* ------------------------------------------------------ CT report assembler
\* "item = find_content_by_code(seq, code); if item: field = Get(item)"
Field(content_sequence, code_value, Get(_), default) ==
    LET item == find_content_by_code(content_sequence, code_value)
    IN  IF item # None THEN Get(item[1]) ELSE default

\* Python str.find of one character: 0 when absent, else its 1-based place
IndexOf(s, c) ==
    IF \E k \in 1..Len(s) : s[k] = c
    THEN CHOOSE k \in 1..Len(s) : s[k] = c /\ \A j \in 1..(k - 1) : s[j] # c
    ELSE 0

\* a conversion that never writes the time of day
format_datetime_DateOnly(dt_str) ==
    IF dt_str = <<>> THEN <<>>
    ELSE LET dot == IndexOf(dt_str, ".")
             dt_part == IF dot > 0 THEN SubSeq(dt_str, 1, dot - 1) ELSE dt_str
         IN  IF Len(dt_part) >= 8
             THEN Slice(dt_part, 0, 4) \o <<"-">> \o Slice(dt_part, 4, 6)
                  \o <<"-">> \o Slice(dt_part, 6, 8)
             ELSE dt_str

format_datetime(dt_str) ==
    IF dt_str = <<>> THEN <<>>
    ELSE LET dot == IndexOf(dt_str, ".")
             dt_part == IF dot > 0 THEN SubSeq(dt_str, 1, dot - 1) ELSE dt_str
             ymd == Slice(dt_part, 0, 4) \o <<"-">> \o Slice(dt_part, 4, 6)
                    \o <<"-">> \o Slice(dt_part, 6, 8)
         IN  IF Len(dt_part) >= 14
             THEN ymd \o <<" ">> \o Slice(dt_part, 8, 10) \o <<":">>
                  \o Slice(dt_part, 10, 12) \o <<":">> \o Slice(dt_part, 12, 14)
             ELSE IF Len(dt_part) >= 8 THEN ymd
             ELSE dt_str

get_datetime_value(content_item) == format_datetime(content_item.DateTime)

get_uid(content_item) == content_item.UID

extract_device_info(content_sequence) ==
    [observer_name |->
        Field(content_sequence, CT_codes.device_observer_name, get_text_value, ""),
     manufacturer |->
        Field(content_sequence, CT_codes.device_observer_manufacturer, get_text_value, ""),
     model_name |->
        Field(content_sequence, CT_codes.device_observer_model, get_text_value, ""),
     serial_number |->
        Field(content_sequence, CT_codes.device_observer_serial, get_text_value, ""),
     physical_location |->
        Field(content_sequence, CT_codes.device_observer_location, get_text_value, "")]

\* the first root item coded 113811 (the loop breaks there), as None or <<item>>
AccumulatedDoseContainer(content_sequence) ==
    find_content_by_code(content_sequence, CT_accumulated_dose)

\* the totals looked up in the root sequence, not inside the container
extract_irradiation_info_TotalsAtRoot(content_sequence) ==
    [start_time |->
        Field(content_sequence, CT_codes.start_irradiation, get_datetime_value, <<>>),
     end_time |->
        Field(content_sequence, CT_codes.end_irradiation, get_datetime_value, <<>>),
     total_events |->
        Field(content_sequence, CT_codes.total_events, get_numeric_value_with_unit, ""),
     total_dlp |->
        Field(content_sequence, CT_codes.total_dlp, get_numeric_value_with_unit, "")]

extract_irradiation_info(content_sequence) ==
    LET acc == AccumulatedDoseContainer(content_sequence)
        inside == acc # None /\ acc[1].HasContentSequence
    IN  [start_time |->
            Field(content_sequence, CT_codes.start_irradiation, get_datetime_value, <<>>),
         end_time |->
            Field(content_sequence, CT_codes.end_irradiation, get_datetime_value, <<>>),
         total_events |->
            IF inside
            THEN Field(acc[1].ContentSequence, CT_codes.total_events,
                       get_numeric_value_with_unit, "")
            ELSE "",
         total_dlp |->
            IF inside
            THEN Field(acc[1].ContentSequence, CT_codes.total_dlp,
                       get_numeric_value_with_unit, "")
            ELSE ""]

SomeNumericWithUnit(content_item) == Some(get_numeric_value_with_unit(content_item))

extract_acquisition_params(content_sequence) ==
    [exposure_time |->
        Field(content_sequence, CT_codes.exposure_time, get_numeric_value_with_unit, ""),
     scanning_length |->
        Field(content_sequence, CT_codes.scanning_length, get_numeric_value_with_unit, ""),
     nominal_single_collimation |->
        Field(content_sequence, CT_codes.single_collimation, get_numeric_value_with_unit, ""),
     nominal_total_collimation |->
        Field(content_sequence, CT_codes.total_collimation, get_numeric_value_with_unit, ""),
     num_xray_sources |->
        Field(content_sequence, CT_codes.num_xray_sources, get_numeric_value_with_unit, ""),
     pitch_factor |->
        Field(content_sequence, CT_codes.pitch_factor, SomeNumericWithUnit, None)]

extract_xray_source_params(content_sequence) ==
    [identification |->
        Field(content_sequence, CT_codes.xray_source_id, get_text_value, ""),
     kvp |->
        Field(content_sequence, CT_codes.kvp, get_numeric_value_with_unit, ""),
     max_tube_current |->
        Field(content_sequence, CT_codes.max_tube_current, get_numeric_value_with_unit, ""),
     tube_current |->
        Field(content_sequence, CT_codes.tube_current, get_numeric_value_with_unit, ""),
     exposure_time_per_rotation |->
        Field(content_sequence, CT_codes.exposure_time_per_rotation, SomeNumericWithUnit, None)]

\* a dose record kept only when its first field was found
extract_ct_dose_AllOrNothing(content_sequence) ==
    IF find_content_by_code(content_sequence, CT_codes.mean_ctdivol) = None
       \/ get_numeric_value_with_unit(
              find_content_by_code(content_sequence, CT_codes.mean_ctdivol)[1]) = ""
    THEN [mean_ctdivol |-> "", phantom_type |-> "", dlp |-> "",
          size_specific_dose |-> None, ctdivol_alert_value |-> None]
    ELSE [mean_ctdivol |->
            Field(content_sequence, CT_codes.mean_ctdivol, get_numeric_value_with_unit, ""),
          phantom_type |->
            Field(content_sequence, CT_codes.phantom_type, get_code_meaning, ""),
          dlp |->
            Field(content_sequence, CT_codes.dlp, get_numeric_value_with_unit, ""),
          size_specific_dose |->
            Field(content_sequence, CT_codes.ssde, SomeNumericWithUnit, None),
          ctdivol_alert_value |->
            Field(content_sequence, CT_codes.ctdivol_alert_value, SomeNumericWithUnit, None)]

extract_ct_dose(content_sequence) ==
    [mean_ctdivol |->
        Field(content_sequence, CT_codes.mean_ctdivol, get_numeric_value_with_unit, ""),
     phantom_type |->
        Field(content_sequence, CT_codes.phantom_type, get_code_meaning, ""),
     dlp |->
        Field(content_sequence, CT_codes.dlp, get_numeric_value_with_unit, ""),
     size_specific_dose |->
        Field(content_sequence, CT_codes.ssde, SomeNumericWithUnit, None),
     ctdivol_alert_value |->
        Field(content_sequence, CT_codes.ctdivol_alert_value, SomeNumericWithUnit, None)]

\* CTAcquisition()
NewCTAcquisition ==
    [protocol |-> "", target_region |-> "", acquisition_type |-> "",
     procedure_context |-> "", irradiation_event_uid |-> "", comment |-> "",
     acquisition_params |-> None, xray_source_params |-> None, ct_dose |-> None]

\* a search without the break: None or the last item coded 113831 that has a
\* ContentSequence
FirstSourceParams_Last(content_sequence, k) ==
    LET places == {j \in k..Len(content_sequence) :
                      /\ HasConceptCode(content_sequence[j], CT_codes.xray_source_params)
                      /\ content_sequence[j].HasContentSequence}
    IN  IF places = {} THEN None
        ELSE Some(content_sequence[CHOOSE j \in places : \A l \in places : l <= j])

\* "for param_item in sub_item.ContentSequence: ... break": None or the first
\* item coded 113831 that has a ContentSequence
RECURSIVE FirstSourceParams(_, _)
FirstSourceParams(content_sequence, k) ==
    IF k > Len(content_sequence) THEN None
    ELSE IF HasConceptCode(content_sequence[k], CT_codes.xray_source_params)
            /\ content_sequence[k].HasContentSequence
         THEN Some(content_sequence[k])
         ELSE FirstSourceParams(content_sequence, k + 1)

\* a loop in which the first dose container of an acquisition is kept
RECURSIVE SubContainers_FirstDose(_, _, _)
SubContainers_FirstDose(acq_content, k, acquisition) ==
    IF k > Len(acq_content) THEN acquisition
    ELSE LET sub_item == acq_content[k]
         IN  IF HasConceptCode(sub_item, CT_codes.acquisition_params)
                /\ sub_item.HasContentSequence
             THEN LET source == FirstSourceParams(sub_item.ContentSequence, 1)
                      with_params ==
                          [acquisition EXCEPT !.acquisition_params =
                              Some(extract_acquisition_params(sub_item.ContentSequence))]
                  IN  SubContainers_FirstDose(acq_content, k + 1,
                          IF source # None
                          THEN [with_params EXCEPT !.xray_source_params =
                                  Some(extract_xray_source_params(source[1].ContentSequence))]
                          ELSE with_params)
             ELSE IF HasConceptCode(sub_item, CT_codes.ct_dose) /\ sub_item.HasContentSequence
                     /\ acquisition.ct_dose = None
             THEN SubContainers_FirstDose(acq_content, k + 1,
                      [acquisition EXCEPT !.ct_dose =
                          Some(extract_ct_dose(sub_item.ContentSequence))])
             ELSE SubContainers_FirstDose(acq_content, k + 1, acquisition)

\* "for sub_item in acq_content": the record after sub-items k..end
RECURSIVE SubContainers(_, _, _)
SubContainers(acq_content, k, acquisition) ==
    IF k > Len(acq_content) THEN acquisition
    ELSE LET sub_item == acq_content[k]
         IN  IF HasConceptCode(sub_item, CT_codes.acquisition_params)
                /\ sub_item.HasContentSequence
             THEN LET source == FirstSourceParams(sub_item.ContentSequence, 1)
                      with_params ==
                          [acquisition EXCEPT !.acquisition_params =
                              Some(extract_acquisition_params(sub_item.ContentSequence))]
                  IN  SubContainers(acq_content, k + 1,
                          IF source # None
                          THEN [with_params EXCEPT !.xray_source_params =
                                  Some(extract_xray_source_params(source[1].ContentSequence))]
                          ELSE with_params)
             ELSE IF HasConceptCode(sub_item, CT_codes.ct_dose) /\ sub_item.HasContentSequence
             THEN SubContainers(acq_content, k + 1,
                      [acquisition EXCEPT !.ct_dose =
                          Some(extract_ct_dose(sub_item.ContentSequence))])
             ELSE SubContainers(acq_content, k + 1, acquisition)

\* the record built for one item coded 113819
ExtractAcquisition(item) ==
    IF ~item.HasContentSequence THEN NewCTAcquisition
    ELSE LET acq_content == item.ContentSequence
         IN  SubContainers(acq_content, 1,
                [NewCTAcquisition EXCEPT
                    !.protocol =
                        Field(acq_content, CT_codes.acquisition_protocol, get_text_value, ""),
                    !.target_region =
                        Field(acq_content, CT_codes.target_region, get_code_meaning, ""),
                    !.acquisition_type =
                        Field(acq_content, CT_codes.acquisition_type, get_code_meaning, ""),
                    !.procedure_context =
                        Field(acq_content, CT_codes.procedure_context, get_code_meaning, ""),
                    !.irradiation_event_uid =
                        Field(acq_content, CT_codes.irradiation_event_uid, get_uid, ""),
                    !.comment =
                        Field(acq_content, CT_codes.comment, get_text_value, "")])

\* an acquisition container counted only when it has children
IsAcquisitionContainer_WithContent(item) ==
    HasConceptCode(item, CT_codes.ct_acquisition) /\ item.HasContentSequence

\* whether the root item starts an acquisition record
IsAcquisitionContainer(item) == HasConceptCode(item, CT_codes.ct_acquisition)

\* a walk that ends at the first acquisition without a dose record
RECURSIVE AcquisitionLoop_StopAtIncomplete(_, _, _)
AcquisitionLoop_StopAtIncomplete(content_sequence, k, acquisitions) ==
    IF k > Len(content_sequence) THEN acquisitions
    ELSE IF IsAcquisitionContainer(content_sequence[k])
         THEN IF ExtractAcquisition(content_sequence[k]).ct_dose = None
              THEN acquisitions
              ELSE AcquisitionLoop_StopAtIncomplete(content_sequence, k + 1,
                       Append(acquisitions, ExtractAcquisition(content_sequence[k])))
         ELSE AcquisitionLoop_StopAtIncomplete(content_sequence, k + 1, acquisitions)

\* "for item in content_sequence": the list `acquisitions` after items k..end
RECURSIVE AcquisitionLoop(_, _, _)
AcquisitionLoop(content_sequence, k, acquisitions) ==
    IF k > Len(content_sequence) THEN acquisitions
    ELSE IF IsAcquisitionContainer(content_sequence[k])
         THEN AcquisitionLoop(content_sequence, k + 1,
                              Append(acquisitions, ExtractAcquisition(content_sequence[k])))
         ELSE AcquisitionLoop(content_sequence, k + 1, acquisitions)

extract_ct_acquisitions(content_sequence) == AcquisitionLoop(content_sequence, 1, <<>>)

\* ------------------------------------------------------------------ documents
\* A decoded file.  Modality "" is "attribute absent"; readable = FALSE is a
\* file on which pydicom.dcmread raises.
EmptyDataset ==
    [file_path |-> "", readable |-> TRUE, Modality |-> "", HasContentSequence |-> FALSE,
     ContentSequence |-> <<>>,
     PatientID |-> <<>>, PatientName |-> <<>>, PatientSex |-> "",
     PatientBirthDate |-> <<>>, StudyDate |-> <<>>, StudyTime |-> <<>>,
     StudyID |-> "", AccessionNumber |-> "", InstitutionName |-> "",
     ContentDate |-> <<>>, ContentTime |-> <<>>,
     Manufacturer |-> "", ManufacturerModelName |-> "", StationName |-> ""]

\* the structural test with the Modality comparison left out
IsValidSR_AnyModality(ds) == ds.HasContentSequence

\* the structural test of extract_from_dicom and extract_excel_data:
\* not (no Modality, or Modality != 'SR', or no ContentSequence)
IsValidSR(ds) == ds.Modality # "" /\ ds.Modality = "SR" /\ ds.HasContentSequence

\* patient_name.replace('^', ' ').strip()
CleanName(name) == Strip([k \in 1..Len(name) |-> IF name[k] = "^" THEN " " ELSE name[k]])

\* date with the time appended when the time has six characters or more
DateWithTime(date_raw, time_raw) ==
    LET formatted_date == format_date(date_raw)
    IN  IF time_raw # <<>> /\ Len(time_raw) >= 6
        THEN formatted_date \o <<",", " ">> \o Slice(time_raw, 0, 2) \o <<":">>
             \o Slice(time_raw, 2, 4) \o <<":">> \o Slice(time_raw, 4, 6)
        ELSE formatted_date

extract_patient_info(ds) ==
    [patient_id |-> ds.PatientID,
     patient_name |-> IF ds.PatientName # <<>> THEN CleanName(ds.PatientName) ELSE <<>>,
     study_id |-> ds.StudyID,
     accession_number |-> ds.AccessionNumber,
     study_date |-> IF ds.StudyDate # <<>> THEN DateWithTime(ds.StudyDate, ds.StudyTime)
                    ELSE <<>>,
     birth_date |-> IF ds.PatientBirthDate # <<>> THEN format_date(ds.PatientBirthDate)
                    ELSE <<>>,
     sex |-> ds.PatientSex]

\* None or the CTScanReport
extract_from_dicom(ds) ==
    IF ~ds.readable THEN None
    ELSE IF ~IsValidSR(ds) THEN None
    ELSE Some([file_path |-> ds.file_path,
               essential |-> extract_patient_info(ds),
               hospital |-> ds.InstitutionName,
               report_date |-> IF ds.ContentDate # <<>>
                               THEN DateWithTime(ds.ContentDate, ds.ContentTime)
                               ELSE <<>>,
               device |-> extract_device_info(ds.ContentSequence),
               irradiation |-> extract_irradiation_info(ds.ContentSequence),
               acquisitions |-> extract_ct_acquisitions(ds.ContentSequence)])

\* ----------------------------------------------- mammography row assembler
\* 'Left' in code_meaning / 'Right' in code_meaning, over the meanings in use
LeftMeanings == {"Left", "Left breast"}

RightMeanings == {"Right", "Right breast"}

RECURSIVE LateralityFrom(_, _)
LateralityFrom(content_sequence, k) ==
    IF k > Len(content_sequence) THEN ""
    ELSE LET item == content_sequence[k]
         IN  IF HasConceptCode(item, Mammo_codes.laterality)
                /\ item.ConceptCodeSequence # <<>>
                /\ item.ConceptCodeSequence[1] \in LeftMeanings
             THEN "Left"
             ELSE IF HasConceptCode(item, Mammo_codes.laterality)
                     /\ item.ConceptCodeSequence # <<>>
                     /\ item.ConceptCodeSequence[1] \in RightMeanings
             THEN "Right"
             ELSE LateralityFrom(content_sequence, k + 1)

extract_laterality(content_sequence) == LateralityFrom(content_sequence, 1)

\* the materials of one 113771 container, appended to `filters` when new
RECURSIVE FilterMaterials(_, _, _)
FilterMaterials(content_sequence, k, filters) ==
    IF k > Len(content_sequence) THEN filters
    ELSE LET material == get_code_meaning(content_sequence[k])
         IN  IF HasConceptCode(content_sequence[k], Mammo_codes.filter_material)
                /\ material # ""
                /\ \A j \in 1..Len(filters) : filters[j] # material
             THEN FilterMaterials(content_sequence, k + 1, Append(filters, material))
             ELSE FilterMaterials(content_sequence, k + 1, filters)

RECURSIVE FiltersFrom(_, _, _)
FiltersFrom(content_sequence, k, filters) ==
    IF k > Len(content_sequence) THEN filters
    ELSE LET item == content_sequence[k]
         IN  IF HasConceptCode(item, Mammo_codes.xray_filters) /\ item.HasContentSequence
             THEN FiltersFrom(content_sequence, k + 1,
                              FilterMaterials(item.ContentSequence, 1, filters))
             ELSE FiltersFrom(content_sequence, k + 1, filters)

extract_all_filters(content_sequence) == FiltersFrom(content_sequence, 1, <<>>)

\* accumulated_agd[laterality] after the AGD items k..end of one 113702 container
RECURSIVE AccumulatedInside(_, _, _)
AccumulatedInside(content_sequence, k, accumulated_agd) ==
    IF k > Len(content_sequence) THEN accumulated_agd
    ELSE LET sub_item == content_sequence[k]
             agd_value == get_numeric_value_as_float(sub_item)
             laterality == extract_laterality(sub_item.ContentSequence)
         IN  IF HasConceptCode(sub_item, Mammo_codes.accumulated_agd)
                /\ agd_value # None /\ sub_item.HasContentSequence /\ laterality # ""
             THEN AccumulatedInside(content_sequence, k + 1,
                                    [accumulated_agd EXCEPT ![laterality] = agd_value])
             ELSE AccumulatedInside(content_sequence, k + 1, accumulated_agd)

RECURSIVE AccumulatedLoop(_, _, _)
AccumulatedLoop(main_content, k, accumulated_agd) ==
    IF k > Len(main_content) THEN accumulated_agd
    ELSE LET item == main_content[k]
         IN  IF HasConceptCode(item, Mammo_codes.accumulated_dose_data)
                /\ item.HasContentSequence
             THEN AccumulatedLoop(main_content, k + 1,
                                  AccumulatedInside(item.ContentSequence, 1, accumulated_agd))
             ELSE AccumulatedLoop(main_content, k + 1, accumulated_agd)

\* the dictionary {'Left': ..., 'Right': ...} of accumulated AGD
extract_accumulated_agd(main_content) ==
    AccumulatedLoop(main_content, 1, [side \in {"Left", "Right"} |-> None])

\* the locals of one event before its items are read
NewEvent ==
    [event_uid |-> "", datetime_started |-> <<>>, event_type |-> "", protocol |-> "",
     laterality |-> "", image_view |-> "", target_region |-> "",
     kvp |-> None, tube_current |-> None, exposure_time |-> None, pulse_width |-> None,
     number_of_pulses |-> None, irradiation_duration |-> None, focal_spot_size |-> None,
     agd |-> None, entrance_exposure |-> None, half_value_layer |-> None,
     compression_thickness |-> None, distance_source_rp |-> None, field_area |-> None,
     field_height |-> None, field_width |-> None,
     anode_material |-> "", grid_type |-> "", positioner_angle |-> None]

\* one pass of the if/elif chain over event_item
\* a reader that keeps the last kVp, tube current and pulse width of an event
ReadEventItem_LastValue(ev, event_item) ==
    IF event_item.ConceptNameCodeSequence = <<>> THEN ev
    ELSE LET code == event_item.ConceptNameCodeSequence[1]
             c == Mammo_codes
             num == get_numeric_value_as_float(event_item)
         IN  IF code = c.anatomical_structure /\ event_item.HasContentSequence
             THEN [ev EXCEPT !.laterality = extract_laterality(event_item.ContentSequence)]
             ELSE IF code = c.kvp THEN [ev EXCEPT !.kvp = num]
             ELSE IF code = c.tube_current THEN [ev EXCEPT !.tube_current = num]
             ELSE IF code = c.pulse_width THEN [ev EXCEPT !.pulse_width = num]
             ELSE ev

ReadEventItem(ev, event_item) ==
    IF event_item.ConceptNameCodeSequence = <<>> THEN ev
    ELSE LET code == event_item.ConceptNameCodeSequence[1]
             c == Mammo_codes
             num == get_numeric_value_as_float(event_item)
             meaning == get_code_meaning(event_item)
         IN  IF code = c.irradiation_event_uid THEN [ev EXCEPT !.event_uid = event_item.UID]
             ELSE IF code = c.datetime_started
                  THEN [ev EXCEPT !.datetime_started = event_item.DateTime]
             ELSE IF code = c.irradiation_event_type THEN [ev EXCEPT !.event_type = meaning]
             ELSE IF code = c.acquisition_protocol
                  THEN [ev EXCEPT !.protocol = get_text_value(event_item)]
             ELSE IF code = c.anatomical_structure
                  THEN [ev EXCEPT !.target_region = meaning,
                                  !.laterality =
                                      IF event_item.HasContentSequence
                                      THEN extract_laterality(event_item.ContentSequence)
                                      ELSE ev.laterality]
             ELSE IF code = c.image_view THEN [ev EXCEPT !.image_view = meaning]
             ELSE IF code = c.target_region THEN [ev EXCEPT !.target_region = meaning]
             ELSE IF code = c.kvp /\ ev.kvp = None THEN [ev EXCEPT !.kvp = num]
             ELSE IF code = c.tube_current /\ ev.tube_current = None
                  THEN [ev EXCEPT !.tube_current = num]
             ELSE IF code = c.exposure_time THEN [ev EXCEPT !.exposure_time = num]
             ELSE IF code = c.pulse_width /\ ev.pulse_width = None
                  THEN [ev EXCEPT !.pulse_width = num]
             ELSE IF code = c.number_of_pulses THEN [ev EXCEPT !.number_of_pulses = num]
             ELSE IF code = c.irradiation_duration
                  THEN [ev EXCEPT !.irradiation_duration = num]
             ELSE IF code = c.focal_spot_size THEN [ev EXCEPT !.focal_spot_size = num]
             ELSE IF code = c.average_glandular_dose THEN [ev EXCEPT !.agd = num]
             ELSE IF code = c.entrance_exposure THEN [ev EXCEPT !.entrance_exposure = num]
             ELSE IF code = c.half_value_layer THEN [ev EXCEPT !.half_value_layer = num]
             ELSE IF code = c.compression_thickness
                  THEN [ev EXCEPT !.compression_thickness = num]
             ELSE IF code = c.distance_source_to_rp
                  THEN [ev EXCEPT !.distance_source_rp = num]
             ELSE IF code = c.collimated_field_area THEN [ev EXCEPT !.field_area = num]
             ELSE IF code = c.collimated_field_height THEN [ev EXCEPT !.field_height = num]
             ELSE IF code = c.collimated_field_width THEN [ev EXCEPT !.field_width = num]
             ELSE IF code = c.anode_target_material THEN [ev EXCEPT !.anode_material = meaning]
             ELSE IF code = c.xray_grid THEN [ev EXCEPT !.grid_type = meaning]
             ELSE IF code = c.positioner_angle THEN [ev EXCEPT !.positioner_angle = num]
             ELSE ev

RECURSIVE ReadEvent(_, _, _)
ReadEvent(event_content, k, ev) ==
    IF k > Len(event_content) THEN ev
    ELSE ReadEvent(event_content, k + 1, ReadEventItem(ev, event_content[k]))

\* x or '-'
OrDash(text) == IF text # "" THEN text ELSE "-"

OrDashChars(text) == IF text # <<>> THEN text ELSE <<"-">>

\* int(patient_id) if patient_id and patient_id.isdigit()
\*     else (patient_id if patient_id else '-')
PatientIdValue(patient_id) ==
    IF patient_id # <<>> /\ AllDigits(patient_id) THEN <<"int", NatOf(patient_id)>>
    ELSE IF patient_id # <<>> THEN <<"str", patient_id>>
    ELSE <<"str", <<"-">>>>

\* the nine leading cells, common to every row of a document
PatientCells(ds) ==
    LET birth_date == IF ds.PatientBirthDate # <<>> THEN format_date(ds.PatientBirthDate)
                      ELSE <<>>
        study_date == study_date_with_time(ds.StudyDate, ds.StudyTime)
    IN  <<PatientIdValue(ds.PatientID), OrDashChars(CleanName(ds.PatientName)),
          OrDash(ds.PatientSex), OrDashChars(birth_date),
          calculate_age(birth_date, study_date), OrDashChars(study_date),
          OrDash(ds.Manufacturer), OrDash(ds.ManufacturerModelName),
          OrDash(ds.StationName)>>

DoseSource(main_content) ==
    Field(main_content, Mammo_codes.dose_source, get_code_meaning, "")

\* all_filters[n] if len(all_filters) > n else ''  (n counted from 1 here)
FilterAt(all_filters, n) == IF Len(all_filters) >= n THEN all_filters[n] ELSE ""

\* excel_row of one irradiation event that has a ContentSequence
EventRow(ds, event_content, accumulated_agd) ==
    LET kvp_stats == aggregate_multiple_values(event_content, Mammo_codes.kvp)
        current_stats == aggregate_multiple_values(event_content, Mammo_codes.tube_current)
        pulse_stats == aggregate_multiple_values(event_content, Mammo_codes.pulse_width)
        all_filters == extract_all_filters(event_content)
        ev == ReadEvent(event_content, 1, NewEvent)
        accumulated_agd_value ==
            IF ev.laterality # "" THEN accumulated_agd[ev.laterality] ELSE None
    IN  PatientCells(ds) \o
        <<OrDash(ev.protocol), OrDash(ev.laterality), OrDash(ev.image_view),
          OrDash(ev.event_type),
          ev.kvp, kvp_stats.min, kvp_stats.max, kvp_stats.avg,
          ev.tube_current, current_stats.min, current_stats.max, current_stats.avg,
          ev.exposure_time, ev.number_of_pulses, Some(pulse_stats.count),
          ev.pulse_width, pulse_stats.min, pulse_stats.max, pulse_stats.avg,
          ev.irradiation_duration, ev.focal_spot_size,
          ev.agd, accumulated_agd_value, ev.entrance_exposure,
          ev.half_value_layer, ev.compression_thickness, ev.distance_source_rp,
          ev.field_area, ev.field_height, ev.field_width,
          OrDash(ev.anode_material), OrDash(FilterAt(all_filters, 1)),
          OrDash(FilterAt(all_filters, 2)), OrDash(FilterAt(all_filters, 3)),
          OrDash(ev.grid_type), ev.positioner_angle,
          OrDash(DoseSource(ds.ContentSequence)), OrDash(ev.event_uid)>>

\* the header row of the worksheet (generate_excel_direct), accents left out
headers ==
    <<"ID do paciente", "Nome do paciente", "Sexo", "Data de nascimento", "Idade",
      "Data do exame", "Fabricante", "Modelo do equipamento", "Nome da estacao",
      "Protocolo de aquisicao", "Lateralidade", "Projecao", "Tipo de evento",
      "kVp", "kVp minimo", "kVp maximo", "kVp medio",
      "Corrente do tubo (mA)", "mA minimo", "mA maximo", "mA medio",
      "Tempo de exposicao", "Numero de pulsos", "Total pulsos registrados",
      "Largura do pulso", "Pulse width minimo", "Pulse width maximo", "Pulse width medio",
      "Duracao da irradiacao", "Tamanho do ponto focal",
      "Dose glandular media (evento)", "Dose glandular acumulada", "Exposicao na entrada",
      "Camada de semi-atenuacao", "Espessura de compressao", "Distancia fonte-ponto ref",
      "Area do campo colimado", "Altura do campo", "Largura do campo",
      "Material do anodo", "Filtro principal", "Filtro secundario", "Filtro terciario",
      "Tipo de grade", "Angulo do posicionador", "Fonte da informacao de dose",
      "UID do evento">>

\* excel_row of a document in which no irradiation event was found
BasicRow(ds) ==
    PatientCells(ds) \o
    <<"-", "-", "-", "-", None, None, None, None, None, None, None, None, None, None, None,
      None, None, None, None, None, None, None, None, None, None, None, None, None, None,
      "-", "-", "-", "-", "-", None, OrDash(DoseSource(ds.ContentSequence)), "-">>

IsIrradiationEvent(item) == HasConceptCode(item, Mammo_codes.irradiation_event)

\* "for item in main_content": excel_rows after the root items k..end
RECURSIVE EventLoop(_, _, _, _)
EventLoop(ds, k, accumulated_agd, excel_rows) ==
    IF k > Len(ds.ContentSequence) THEN excel_rows
    ELSE LET item == ds.ContentSequence[k]
         IN  IF IsIrradiationEvent(item) /\ item.HasContentSequence
             THEN EventLoop(ds, k + 1, accumulated_agd,
                            Append(excel_rows,
                                   EventRow(ds, item.ContentSequence, accumulated_agd)))
             ELSE EventLoop(ds, k + 1, accumulated_agd, excel_rows)

\* events_found after the loop: some root item is coded 113706
EventsFound(main_content) ==
    \E k \in 1..Len(main_content) : IsIrradiationEvent(main_content[k])

\* the list of rows; <<>> is the empty list
extract_excel_data(ds) ==
    IF ~ds.readable THEN <<>>
    ELSE IF ~IsValidSR(ds) THEN <<>>
    ELSE LET main_content == ds.ContentSequence
             excel_rows == EventLoop(ds, 1, extract_accumulated_agd(main_content), <<>>)
         IN  IF ~EventsFound(main_content) THEN Append(excel_rows, BasicRow(ds))
             ELSE excel_rows

\* ------------------------------------------------- CT spreadsheet writer
\* A report is read back from JSON as asdict() wrote it: every key present,
\* None for a sub-record that was never set.
\* d.get(key) of a sub-record that may be None ("or {}"): None or the value
SubGet(sub_record, key) == IF sub_record = None THEN None ELSE Some(sub_record[1][key])

\* value if value is not None else '-'
NotNoneOrDash(value) == IF value = None THEN "-" ELSE value[1]

\* the same for a field that is itself Optional in the record
NotNoneOrDashOptional(value) ==
    IF value = None THEN "-" ELSE IF value[1] = None THEN "-" ELSE value[1][1]

\* DICOMDoseExcel.extract_scan_info
extract_scan_info(acquisition) ==
    [protocol |-> acquisition.protocol,
     description |-> IF acquisition.comment \in {"", "null"} THEN "-" ELSE acquisition.comment,
     scan_mode |-> acquisition.acquisition_type,
     phantom_type |-> IF acquisition.ct_dose = None THEN "-"
                      ELSE acquisition.ct_dose[1].phantom_type,
     ctdivol |-> NotNoneOrDash(SubGet(acquisition.ct_dose, "mean_ctdivol")),
     dlp |-> NotNoneOrDash(SubGet(acquisition.ct_dose, "dlp")),
     ssde |-> NotNoneOrDashOptional(SubGet(acquisition.ct_dose, "size_specific_dose")),
     tube_current |-> NotNoneOrDash(SubGet(acquisition.xray_source_params, "tube_current")),
     kv |-> NotNoneOrDash(SubGet(acquisition.xray_source_params, "kvp")),
     avg_scan_size |-> "-"]

\* int(age) if age != '-' and age.isdigit() else age
ExcelAgeValue(age) ==
    IF age # <<"-">> /\ age # <<>> /\ AllDigits(age) THEN <<"int", NatOf(age)>>
    ELSE <<"str", age>>

\* columns 1-5 and 7 of every row of a report
ExcelPatientCells(report) ==
    [patient_id |-> PatientIdValue(report.essential.patient_id),
     patient_name |-> report.essential.patient_name,
     sex |-> report.essential.sex,
     birth_date |-> report.essential.birth_date,
     age |-> ExcelAgeValue(excel_calculate_age(report.essential.birth_date,
                                               report.essential.study_date)),
     study_date |-> report.essential.study_date]

\* the row of one acquisition: the cells of columns 1..17
AcquisitionRow(report, acquisition) ==
    LET scan_info == extract_scan_info(acquisition)
        patient == ExcelPatientCells(report)
    IN  <<patient.patient_id, patient.patient_name, patient.sex, patient.birth_date,
          patient.age, scan_info.protocol, patient.study_date,
          IF scan_info.description \in {"", "null"} THEN "-" ELSE scan_info.description,
          scan_info.scan_mode, scan_info.tube_current, scan_info.kv, scan_info.ctdivol,
          scan_info.dlp, report.irradiation.total_dlp, scan_info.phantom_type,
          scan_info.ssde, scan_info.avg_scan_size>>

\* the row of a report without acquisitions
PlaceholderRow(report) ==
    LET patient == ExcelPatientCells(report)
    IN  <<patient.patient_id, patient.patient_name, patient.sex, patient.birth_date,
          patient.age, "-", patient.study_date, "-", "-", "-", "-", "-", "-",
          report.irradiation.total_dlp, "-", "-", "-">>

\* a writer that leaves out the reports without acquisitions
ReportRows_NoPlaceholder(report) ==
    [a \in 1..Len(report.acquisitions) |-> AcquisitionRow(report, report.acquisitions[a])]

\* the rows written for one report ("if acquisitions: ... else: ...")
ReportRows(report) ==
    IF report.acquisitions # <<>>
    THEN [a \in 1..Len(report.acquisitions) |-> AcquisitionRow(report, report.acquisitions[a])]
    ELSE <<PlaceholderRow(report)>>

\* "for report in reports": the sheet's data rows after reports k..end
RECURSIVE WriteReports(_, _, _)
WriteReports(reports_read, k, rows) ==
    IF k > Len(reports_read) THEN rows
    ELSE WriteReports(reports_read, k + 1, rows \o ReportRows(reports_read[k]))

\* DICOMDoseExcel.json_to_excel: the data rows of the saved sheet (row 2 on)
json_to_excel(reports_read) == WriteReports(reports_read, 1, <<>>)

\* =========================================================================
\* Inputs
\* =========================================================================
Chars8(y, m, d) == FixedDigits(y, 4) \o FixedDigits(m, 2) \o FixedDigits(d, 2)

\* items handed to the numeric extractors and to the aggregator
NumericItems ==
    {NumItem(Mammo_codes.kvp, ToString(n), "kV") : n \in NumDomain}
    \cup {NumItem(Mammo_codes.kvp, "80", ""),          \* no unit
          NumItem(Mammo_codes.kvp, "abc", "kV"),       \* not a number
          NumItem(Mammo_codes.kvp, "", "kV"),          \* measured value without NumericValue
          Coded(Mammo_codes.kvp),                      \* no MeasuredValueSequence
          NumItem(Mammo_codes.tube_current, "90", "mA"),
          [EmptyItem EXCEPT !.MeasuredValueSequence =
              <<[NumericValue |-> "90", MeasurementUnitsCodeSequence |-> <<"kV">>]>>]}

\* all tuples over S of length 0..n
RECURSIVE SeqsUpTo(_, _)
SeqsUpTo(S, n) ==
    IF n = 0 THEN {<<>>}
    ELSE LET shorter == SeqsUpTo(S, n - 1)
         IN  shorter \cup {Append(q, x) : q \in {q \in shorter : Len(q) = n - 1}, x \in S}

\* root items of the documents
AcqA ==
    Container(CT_codes.ct_acquisition,
        <<TextItem(CT_codes.acquisition_protocol, "A"),
          Container(CT_codes.acquisition_params,
              <<NumItem(CT_codes.exposure_time, "2", "s"),
                TextItem(CT_codes.comment, "c"),       \* a comment one level too deep
                Container(CT_codes.xray_source_params,
                    <<NumItem(CT_codes.kvp, "80", "kV")>>)>>),
          Container(CT_codes.ct_dose,
              <<NumItem(CT_codes.mean_ctdivol, "1", "mGy"),
                NumItem(CT_codes.dlp, "100", "mGy.cm"),
                NumItem(CT_codes.ssde, "2", "mGy")>>)>>)

AcqB == Container(CT_codes.ct_acquisition, <<TextItem(CT_codes.acquisition_protocol, "B")>>)

EventLeft ==
    Container(Mammo_codes.irradiation_event,
        <<NumItem(Mammo_codes.kvp, "80", "kV"), NumItem(Mammo_codes.kvp, "90", "kV"),
          Container(Mammo_codes.anatomical_structure,
              <<MeaningItem(Mammo_codes.laterality, "Left breast")>>),
          [Coded(Mammo_codes.irradiation_event_uid) EXCEPT !.UID = "1.2.3"]>>)

RootItems ==
    {AcqA, AcqB,
     Coded(CT_codes.ct_acquisition),                   \* acquisition without ContentSequence
     Container(CT_codes.ct_acquisition, <<>>),         \* acquisition with an empty one
     [EmptyItem EXCEPT !.TextValue = "x"],             \* item without concept code
     Container(CT_accumulated_dose,
         <<NumItem(CT_codes.total_events, "2", "events"),
           NumItem(CT_codes.total_dlp, "100", "mGy.cm")>>),
     TextItem(CT_codes.device_observer_name, "CT1"),
     [Coded(CT_codes.start_irradiation) EXCEPT         \* start of irradiation, at the root
         !.DateTime = Chars8(2024, 1, 1) \o <<"1", "0", "1", "5", "0", "0">>],
     NumItem(CT_codes.total_events, "2", "events"),    \* a total outside its container
     Container(CT_codes.ct_dose,                       \* wanted codes one level below the root
         <<AcqB, TextItem(CT_codes.device_observer_name, "CT2"),
           [Coded(CT_codes.end_irradiation) EXCEPT
               !.DateTime = Chars8(2024, 1, 1) \o <<"1", "0", "2", "0", "0", "0">>],
           Container(CT_accumulated_dose, <<NumItem(CT_codes.total_dlp, "100", "mGy.cm")>>)>>),
     EventLeft,
     Coded(Mammo_codes.irradiation_event),             \* event without ContentSequence
     Container(Mammo_codes.irradiation_event, <<>>),   \* event with an empty one
     Container(Mammo_codes.accumulated_dose_data,
         <<[NumItem(Mammo_codes.accumulated_agd, "2", "mGy") EXCEPT
               !.HasContentSequence = TRUE,
               !.ContentSequence = <<MeaningItem(Mammo_codes.laterality, "Left breast")>>]>>)}

\* header of every document of the model
BaseDataset ==
    [EmptyDataset EXCEPT
        !.file_path = "f",
        !.PatientID = <<"0", "4", "2">>,
        !.PatientName = <<"D", "O", "E", "^", "J", "^">>,
        !.PatientSex = "F",
        !.PatientBirthDate = Chars8(1980, 3, 1),
        !.StudyDate = Chars8(2024, 1, 1),
        !.StudyTime = <<"1", "0", "1", "5", "0", "0">>,
        !.InstitutionName = "H",
        !.ContentDate = Chars8(2024, 1, 2)]

SRDataset(main_content) ==
    [BaseDataset EXCEPT !.Modality = "SR", !.HasContentSequence = TRUE,
                        !.ContentSequence = main_content]

Documents ==
    {SRDataset(cs) : cs \in SeqsUpTo(RootItems, MaxRoot)}
    \cup {[SRDataset(cs) EXCEPT !.Modality = m] : cs \in SeqsUpTo(RootItems, 1), m \in {"", "CT"}}
    \cup {[SRDataset(cs) EXCEPT !.HasContentSequence = FALSE, !.ContentSequence = <<>>] :
            cs \in {<<>>}}
    \cup {[BaseDataset EXCEPT !.Modality = "CT"], BaseDataset}
    \cup {[SRDataset(cs) EXCEPT !.readable = FALSE] : cs \in SeqsUpTo(RootItems, 1)}

\* the kinds of document a batch run meets
BatchDocuments ==
    {SRDataset(<<AcqA, EventLeft>>),
     SRDataset(<<Coded(Mammo_codes.irradiation_event)>>),
     [SRDataset(<<AcqA>>) EXCEPT !.Modality = "CT"],
     [SRDataset(<<AcqA>>) EXCEPT !.readable = FALSE]}

\* the k-th discovered file holds document d
Discovered(files) == [k \in 1..Len(files) |-> [files[k] EXCEPT !.file_path = ToString(k)]]

NoBatch ==
    /\ dicom_files = <<>>
    /\ i = 0
    /\ reports = <<>>
    /\ processed_count = 0
    /\ error_count = 0
    /\ attempts = <<>>
    /\ concept_codes = [DICOMDoseExtractor |-> CT_codes,
                        DICOMMamographyExtractor |-> Mammo_codes]

BatchUnchanged ==
    UNCHANGED <<dicom_files, i, reports, processed_count, error_count, attempts, concept_codes>>

\* =========================================================================
\* SpecDoc: one document, extracted by either extractor
\* =========================================================================
InitDoc ==
    /\ pc = "start"
    /\ call \in {[fn |-> "", ds |-> d] : d \in Documents}
    /\ ret = <<>>
    /\ NoBatch

ExtractFromDicom ==
    /\ pc = "start"
    /\ call' = [call EXCEPT !.fn = "extract_from_dicom"]
    /\ ret' = extract_from_dicom(call.ds)
    /\ pc' = "done"
    /\ BatchUnchanged

ExtractExcelData ==
    /\ pc = "start"
    /\ call' = [call EXCEPT !.fn = "extract_excel_data"]
    /\ ret' = extract_excel_data(call.ds)
    /\ pc' = "done"
    /\ BatchUnchanged

NextDoc == ExtractFromDicom \/ ExtractExcelData

SpecDoc == InitDoc /\ [][NextDoc]_vars

\* ------------------------------------------------------------ claims, SpecDoc
Done(fn) == pc = "done" /\ call.fn = fn

\* the document is not a report-bearing one
StructurallyInvalid(ds) == ds.Modality = "" \/ ds.Modality # "SR" \/ ~ds.HasContentSequence

\* C1: a structurally invalid document (Modality missing or not 'SR', or no
\* ContentSequence) yields only the "not extractable" result: extract_from_dicom
\* returns None and extract_excel_data returns the empty row list.
C1_InvalidDocumentNotExtractable ==
    /\ Done("extract_from_dicom") /\ StructurallyInvalid(call.ds) => ret = None
    /\ Done("extract_excel_data") /\ StructurallyInvalid(call.ds) => ret = <<>>

C1_Witness ==
    /\ Done("extract_from_dicom")
    /\ call.ds.readable
    /\ call.ds.Modality = "CT"
    /\ call.ds.HasContentSequence
    /\ call.ds.ContentSequence # <<>>
    /\ ret = None

\* C2: every readable document with Modality 'SR' and a ContentSequence is
\* extracted with success, whatever its content tree holds: extract_from_dicom
\* returns a report and extract_excel_data returns at least one row.
C2_ValidDocumentAlwaysSucceeds ==
    /\ Done("extract_from_dicom") /\ call.ds.readable /\ ~StructurallyInvalid(call.ds)
        => ret # None
    /\ Done("extract_excel_data") /\ call.ds.readable /\ ~StructurallyInvalid(call.ds)
        => Len(ret) >= 1

\* the places of the root items whose concept code is the CT-acquisition code
AcquisitionPlaces(main_content) ==
    {k \in 1..Len(main_content) : main_content[k].ConceptNameCodeSequence = <<"113819">>}

\* the j-th smallest element of a set of numbers
RECURSIVE Nth(_, _)
Nth(S, j) ==
    LET least == CHOOSE x \in S : \A y \in S : x <= y
    IN  IF j = 1 THEN least ELSE Nth(S \ {least}, j - 1)

\* the protocol text an acquisition container carries ("" when it carries none)
ProtocolOf(item) ==
    LET named == {k \in 1..Len(item.ContentSequence) :
                    item.ContentSequence[k].ConceptNameCodeSequence = <<"125203">>}
    IN  IF ~item.HasContentSequence \/ named = {} THEN ""
        ELSE item.ContentSequence[Nth(named, 1)].TextValue

\* C4: extract_ct_acquisitions returns exactly one record per direct child of the
\* root sequence coded 113819, in the order of those children, and nothing else;
\* a container without children yields its empty record.
C4_OneRecordPerAcquisitionInOrder ==
    Done("extract_from_dicom") /\ ret # None =>
        LET main_content == call.ds.ContentSequence
            places == AcquisitionPlaces(main_content)
            acquisitions == ret[1].acquisitions
        IN  /\ Len(acquisitions) = Cardinality(places)
            /\ \A j \in 1..Len(acquisitions) :
                 LET item == main_content[Nth(places, j)]
                 IN  /\ acquisitions[j].protocol = ProtocolOf(item)
                     /\ (~item.HasContentSequence \/ item.ContentSequence = <<>>)
                            => acquisitions[j] = NewCTAcquisition

\* two acquisitions with different protocols after a container without children
C4_Witness ==
    /\ Done("extract_from_dicom")
    /\ ret # None
    /\ Len(ret[1].acquisitions) = 2
    /\ ~call.ds.ContentSequence[1].HasContentSequence
    /\ ret[1].acquisitions[1] = NewCTAcquisition
    /\ ret[1].acquisitions[2].protocol = "B"

\* =========================================================================
\* SpecNumeric: the numeric extractors and the aggregator on a list of items
\* =========================================================================
InitNumeric ==
    /\ pc = "start"
    /\ call \in {[fn |-> "", content_sequence |-> cs, code_value |-> Mammo_codes.kvp] :
                    cs \in SeqsUpTo(NumericItems, MaxChildren) \ {<<>>}}
    /\ ret = <<>>
    /\ NoBatch

\* the extractors of one item are applied to the first item of the list
NumericValueWithUnit ==
    /\ pc = "start"
    /\ call' = [call EXCEPT !.fn = "get_numeric_value_with_unit"]
    /\ ret' = get_numeric_value_with_unit(call.content_sequence[1])
    /\ pc' = "done"
    /\ BatchUnchanged

NumericValueOnly ==
    /\ pc = "start"
    /\ call' = [call EXCEPT !.fn = "get_numeric_value_only"]
    /\ ret' = get_numeric_value_only(call.content_sequence[1])
    /\ pc' = "done"
    /\ BatchUnchanged

NumericValueAsFloat ==
    /\ pc = "start"
    /\ call' = [call EXCEPT !.fn = "get_numeric_value_as_float"]
    /\ ret' = get_numeric_value_as_float(call.content_sequence[1])
    /\ pc' = "done"
    /\ BatchUnchanged

AggregateMultipleValues ==
    /\ pc = "start"
    /\ call' = [call EXCEPT !.fn = "aggregate_multiple_values"]
    /\ ret' = aggregate_multiple_values(call.content_sequence, call.code_value)
    /\ pc' = "done"
    /\ BatchUnchanged

FindContentByCode ==
    /\ pc = "start"
    /\ call' = [call EXCEPT !.fn = "find_content_by_code"]
    /\ ret' = find_content_by_code(call.content_sequence, call.code_value)
    /\ pc' = "done"
    /\ BatchUnchanged

NextNumeric ==
    \/ NumericValueWithUnit
    \/ NumericValueOnly
    \/ NumericValueAsFloat
    \/ AggregateMultipleValues
    \/ FindContentByCode

SpecNumeric == InitNumeric /\ [][NextNumeric]_vars

\* -------------------------------------------------------- claims, SpecNumeric
\* the item carries a numeric payload: a measured value whose NumericValue is a number
HasNumber(item) ==
    /\ item.MeasuredValueSequence # <<>>
    /\ item.MeasuredValueSequence[1].NumericValue \in {ToString(n) : n \in NumDomain}

\* the number it carries, in ten-thousandths
NumberOf(item) ==
    (CHOOSE n \in NumDomain : ToString(n) = item.MeasuredValueSequence[1].NumericValue) * 10000

IsZero(item) == HasNumber(item) /\ NumberOf(item) = 0

\* the places of the children that carry the target code and a number
SamplePlaces(content_sequence, code_value) ==
    {k \in 1..Len(content_sequence) :
        /\ content_sequence[k].ConceptNameCodeSequence = <<code_value>>
        /\ HasNumber(content_sequence[k])}

\* C5: a numeric node whose measured value is present and zero is extracted as
\* zero (as text with its unit, as a float, and as a counted sample of the
\* aggregate); a node without numeric payload is extracted as missing; so a
\* present zero is never reported as missing nor a missing value as zero.
C5_PresentZeroIsExtractedAsZero ==
    LET first == call.content_sequence[1]
    IN  /\ Done("get_numeric_value_with_unit") /\ IsZero(first) => ret \in {"0", "0 kV"}
        /\ Done("get_numeric_value_with_unit") /\ ~HasNumber(first) => ret = ""
        /\ Done("get_numeric_value_as_float") /\ IsZero(first) => ret = <<0>>
        /\ Done("get_numeric_value_as_float") /\ ~HasNumber(first) => ret = <<>>
        /\ Done("aggregate_multiple_values")
           /\ (\E k \in SamplePlaces(call.content_sequence, call.code_value) :
                 IsZero(call.content_sequence[k]))
            => ret.count >= 1 /\ ret.min = <<0>>

\* the statistics of the numbers at the given places
StatsOf(content_sequence, places) ==
    LET nums == {NumberOf(content_sequence[k]) : k \in places}
        total == SumSeq([j \in 1..Cardinality(places) |->
                            NumberOf(content_sequence[Nth(places, j)])])
        n == Cardinality(places)
        floor == total \div (10 * n)
        nearest == 10 * (IF 2 * (total % (10 * n)) < 10 * n THEN floor
                         ELSE IF 2 * (total % (10 * n)) > 10 * n THEN floor + 1
                         ELSE IF floor % 2 = 0 THEN floor ELSE floor + 1)
    IN  IF places = {}
        THEN [min |-> <<>>, max |-> <<>>, avg |-> <<>>, count |-> 0]
        ELSE [min |-> <<CHOOSE x \in nums : \A y \in nums : x <= y>>,
              max |-> <<CHOOSE x \in nums : \A y \in nums : x >= y>>,
              avg |-> <<nearest>>,
              count |-> n]

\* C6: aggregate_multiple_values collects the number of every direct child that
\* carries the target code (not only the first), skips children whose value is
\* absent or not a number, and returns min, max and mean (to three decimals) of
\* the collected numbers with count their number; no match gives undefined
\* statistics with count 0.
C6_AggregateCollectsEveryNumber ==
    Done("aggregate_multiple_values") =>
        ret = StatsOf(call.content_sequence,
                      SamplePlaces(call.content_sequence, call.code_value))

\* C7: with exactly two numeric leaves of the target code among the children,
\* the count is exactly 2 for every pair of numeric values, and the result is
\* the same for the two leaves in either order.
C7_TwoLeavesCountTwoAnyOrder ==
    LET cs == call.content_sequence
        places == SamplePlaces(cs, call.code_value)
        coded == {k \in 1..Len(cs) : cs[k].ConceptNameCodeSequence = <<call.code_value>>}
        a == Nth(places, 1)
        b == Nth(places, 2)
        swapped == [cs EXCEPT ![a] = cs[b], ![b] = cs[a]]
    IN  Done("aggregate_multiple_values") /\ Cardinality(places) = 2 /\ coded = places
            => /\ ret.count = 2
               /\ ret = aggregate_multiple_values(swapped, call.code_value)

Defined(x) == x # <<>>

\* C8: the statistics are defined exactly when a sample was collected:
\* count >= 1 iff min, max and avg are all defined, count = 0 iff all three are
\* undefined, and when defined min <= avg <= max.
C8_StatisticsDefinedIffCounted ==
    Done("aggregate_multiple_values") =>
        /\ ret.count >= 1 <=> (Defined(ret.min) /\ Defined(ret.max) /\ Defined(ret.avg))
        /\ ret.count = 0 <=> (~Defined(ret.min) /\ ~Defined(ret.max) /\ ~Defined(ret.avg))
        /\ Defined(ret.min) /\ Defined(ret.max) /\ Defined(ret.avg)
            => ret.min[1] <= ret.avg[1] /\ ret.avg[1] <= ret.max[1]

\* three samples whose mean is not a whole number of thousandths before rounding
C8_Witness ==
    /\ Done("aggregate_multiple_values")
    /\ ret.count = 3
    /\ ret.min[1] < ret.avg[1] /\ ret.avg[1] < ret.max[1]
    /\ ret.avg[1] * 3 # SumSeq([k \in 1..3 |-> NumberOf(call.content_sequence[k])])

\* =========================================================================
\* Spec: a batch run over the discovered documents
\* =========================================================================
\* the body of the CT loop after extraction: a report is appended and counted
\* as processed, no report is counted as an error
CountReport_ForgetFailure(report, acc) ==
    IF report # None
    THEN [acc EXCEPT !.reports = Append(@, report[1]), !.processed_count = @ + 1]
    ELSE acc

CountReport(report, acc) ==
    IF report # None
    THEN [acc EXCEPT !.reports = Append(@, report[1]), !.processed_count = @ + 1]
    ELSE [acc EXCEPT !.error_count = @ + 1]

\* the body of the mammography loop after extraction: the rows are written to
\* the worksheet (row_idx = Len(reports) + 2) and the document is counted
CountRows(excel_rows, acc) ==
    IF excel_rows # <<>>
    THEN [acc EXCEPT !.reports = @ \o excel_rows, !.processed_count = @ + 1]
    ELSE [acc EXCEPT !.error_count = @ + 1]

Acc == [reports |-> reports, processed_count |-> processed_count, error_count |-> error_count]

SetAcc(acc) ==
    /\ reports' = acc.reports
    /\ processed_count' = acc.processed_count
    /\ error_count' = acc.error_count

Init ==
    /\ pc = "start"
    /\ call \in {[fn |-> f] : f \in {"process_all_dicoms_recursive", "generate_excel_direct"}}
    /\ dicom_files \in {Discovered(files) : files \in SeqsUpTo(BatchDocuments, MaxFiles)}
    /\ ret = <<>>
    /\ i = 0
    /\ reports = <<>>
    /\ processed_count = 0
    /\ error_count = 0
    /\ attempts = <<>>
    /\ concept_codes = [DICOMDoseExtractor |-> CT_codes,
                        DICOMMamographyExtractor |-> Mammo_codes]

\* `if not dicom_files: return []` (return False for the worksheet)
ReturnEmpty ==
    /\ pc = "start"
    /\ dicom_files = <<>>
    /\ pc' = "done"
    /\ ret' = IF call.fn = "generate_excel_direct" THEN <<FALSE>> ELSE <<>>
    /\ UNCHANGED <<call, dicom_files, i, reports, processed_count, error_count, attempts,
                   concept_codes>>

\* reports = [], processed_count = 0, error_count = 0, and the loop is entered
EnterLoop ==
    /\ pc = "start"
    /\ dicom_files # <<>>
    /\ pc' = "loop"
    /\ reports' = <<>>
    /\ processed_count' = 0
    /\ error_count' = 0
    /\ UNCHANGED <<call, ret, dicom_files, i, attempts, concept_codes>>

\* an iteration whose report shares its acquisitions list with the report
\* collected before it
ProcessDicom_SharedAcquisitions ==
    LET fresh == extract_from_dicom(dicom_files[i + 1])
        report == IF fresh # None /\ reports # <<>>
                  THEN Some([fresh[1] EXCEPT !.acquisitions =
                                reports[Len(reports)].acquisitions \o @])
                  ELSE fresh
    IN  /\ pc = "loop"
        /\ call.fn = "process_all_dicoms_recursive"
        /\ i < Len(dicom_files)
        /\ i' = i + 1
        /\ attempts' = Append(attempts, [file_path |-> dicom_files[i + 1].file_path,
                                         raised |-> FALSE, result |-> report])
        /\ SetAcc(CountReport(report, Acc))
        /\ UNCHANGED <<pc, call, ret, dicom_files, concept_codes>>

\* an iteration that empties the content tree it has read
ProcessDicom_ConsumesTree ==
    /\ pc = "loop"
    /\ call.fn = "process_all_dicoms_recursive"
    /\ i < Len(dicom_files)
    /\ i' = i + 1
    /\ attempts' = Append(attempts, [file_path |-> dicom_files[i + 1].file_path, raised |-> FALSE,
                                     result |-> extract_from_dicom(dicom_files[i + 1])])
    /\ SetAcc(CountReport(extract_from_dicom(dicom_files[i + 1]), Acc))
    /\ dicom_files' = [dicom_files EXCEPT ![i + 1].ContentSequence = <<>>]
    /\ UNCHANGED <<pc, call, ret, concept_codes>>

\* one iteration of process_all_dicoms_recursive's loop
ProcessDicom ==
    /\ pc = "loop"
    /\ call.fn = "process_all_dicoms_recursive"
    /\ i < Len(dicom_files)
    /\ i' = i + 1
    /\ attempts' = Append(attempts, [file_path |-> dicom_files[i + 1].file_path, raised |-> FALSE,
                                     result |-> extract_from_dicom(dicom_files[i + 1])])
    /\ SetAcc(CountReport(extract_from_dicom(dicom_files[i + 1]), Acc))
    /\ UNCHANGED <<pc, call, ret, dicom_files, concept_codes>>

\* one iteration of generate_excel_direct's loop
ProcessExcelRows ==
    /\ pc = "loop"
    /\ call.fn = "generate_excel_direct"
    /\ i < Len(dicom_files)
    /\ i' = i + 1
    /\ attempts' = Append(attempts, [file_path |-> dicom_files[i + 1].file_path, raised |-> FALSE,
                                     result |-> extract_excel_data(dicom_files[i + 1])])
    /\ SetAcc(CountRows(extract_excel_data(dicom_files[i + 1]), Acc))
    /\ UNCHANGED <<pc, call, ret, dicom_files, concept_codes>>

\* an iteration whose first statement (the progress line with os.path.relpath)
\* raises: the except handler counts an error and the loop goes on
FileRaises ==
    /\ pc = "loop"
    /\ i < Len(dicom_files)
    /\ i' = i + 1
    /\ attempts' = Append(attempts, [file_path |-> dicom_files[i + 1].file_path, raised |-> TRUE,
                                     result |-> <<>>])
    /\ error_count' = error_count + 1
    /\ UNCHANGED <<pc, call, ret, dicom_files, reports, processed_count, concept_codes>>

\* the loop is exhausted; the reports are returned (the worksheet is saved or not)
Finish ==
    /\ pc = "loop"
    /\ i = Len(dicom_files)
    /\ pc' = "done"
    /\ ret' \in IF call.fn = "generate_excel_direct" THEN {<<TRUE>>, <<FALSE>>} ELSE {reports}
    /\ UNCHANGED <<call, dicom_files, i, reports, processed_count, error_count, attempts,
                   concept_codes>>

Next == ReturnEmpty \/ EnterLoop \/ FileRaises \/ Finish \/ ProcessDicom \/ ProcessExcelRows

Spec == Init /\ [][Next]_vars

\* the for loop always takes its next step
FairSpec == Spec /\ WF_vars(Next)

\* --------------------------------------------------------------- claims, Spec
\* the documents attempted without raising whose extraction gave a result
Successful ==
    {k \in 1..Len(attempts) :
        /\ ~attempts[k].raised
        /\ IF call.fn = "generate_excel_direct"
           THEN extract_excel_data(dicom_files[k]) # <<>>
           ELSE extract_from_dicom(dicom_files[k]) # None}

\* what the successful documents contribute, in discovery order
ExpectedReports ==
    LET rows[k \in 0..Len(attempts)] ==
            IF k = 0 THEN <<>>
            ELSE IF k \notin Successful THEN rows[k - 1]
            ELSE IF call.fn = "generate_excel_direct"
                 THEN rows[k - 1] \o extract_excel_data(dicom_files[k])
                 ELSE Append(rows[k - 1], extract_from_dicom(dicom_files[k])[1])
    IN  rows[Len(attempts)]

C3_Attempts ==
    /\ Len(attempts) = i
    /\ i <= Len(dicom_files)
    /\ \A k \in 1..i : attempts[k].file_path = dicom_files[k].file_path
    /\ pc = "done" =>
        /\ i = Len(dicom_files)
        /\ processed_count + error_count = Len(dicom_files)
        /\ processed_count = Cardinality(Successful)
        /\ reports = ExpectedReports

\* C3: in a batch run every discovered file is eventually attempted exactly
\* once, in discovery order; a document whose extraction fails or raises does
\* not stop the later ones; when the loop ends processed_count + error_count
\* is the number of discovered files and the collected reports are exactly
\* the successful documents, in discovery order.
C3_EveryFileAttemptedOnceInOrder == [](C3_Attempts) /\ <>(pc = "done" /\ i = Len(dicom_files))

\* a run of three documents where a failure and a raise precede a success
C3_Witness ==
    /\ pc = "done"
    /\ Len(dicom_files) = 3
    /\ attempts[1].raised
    /\ 2 \notin Successful
    /\ 3 \in Successful
    /\ reports # <<>>

\* =========================================================================
\* SpecAge: the two age calculators on a pair of date strings
\* =========================================================================
\* dates as the documents carry them (DA values), written by the normalizer
BirthDates == {[year |-> y, month |-> m, day |-> d] : y \in {1979, 1980}, m \in {1, 3, 12}, d \in {1, 31}}

ExamDates == {[year |-> 2024, month |-> m, day |-> d] : m \in {1, 3, 12}, d \in {1, 31}}

StudyTimes == {<<>>, <<"1", "0", "1", "5", "0", "0">>}

\* strings that are not in the normalizer's form
OtherStrings ==
    {<<>>, <<"a", "b", "c">>, <<"0", "0", "0", "0">>, <<"1", "9", "8", "0">>,
     <<"2", "0", "2", "4">>, <<"J", "u", "n", " ", "1", "5", ",", " ", "2", "0", "2", "4">>}

InitAge ==
    /\ pc = "start"
    /\ call \in
        {[fn |-> "", normalized |-> TRUE, birth |-> b, exam |-> e, study_time |-> t,
          birth_date_str |-> format_date(Chars8(b.year, b.month, b.day)),
          exam_date_str |-> study_date_with_time(Chars8(e.year, e.month, e.day), t)] :
            b \in BirthDates, e \in ExamDates, t \in StudyTimes}
        \cup
        {[fn |-> "", normalized |-> FALSE, birth |-> [year |-> 0, month |-> 0, day |-> 0],
          exam |-> [year |-> 0, month |-> 0, day |-> 0], study_time |-> <<>>,
          birth_date_str |-> b, exam_date_str |-> e] :
            b \in OtherStrings, e \in OtherStrings}
    /\ ret = <<>>
    /\ NoBatch

\* DICOMMamographyExtractor.calculate_age
CalculateAge ==
    /\ pc = "start"
    /\ call' = [call EXCEPT !.fn = "calculate_age"]
    /\ ret' = calculate_age(call.birth_date_str, call.exam_date_str)
    /\ pc' = "done"
    /\ BatchUnchanged

\* DICOMDoseExcel.calculate_age
ExcelCalculateAge ==
    /\ pc = "start"
    /\ call' = [call EXCEPT !.fn = "excel_calculate_age"]
    /\ ret' = excel_calculate_age(call.birth_date_str, call.exam_date_str)
    /\ pc' = "done"
    /\ BatchUnchanged

NextAge == CalculateAge \/ ExcelCalculateAge

SpecAge == InitAge /\ [][NextAge]_vars

\* ------------------------------------------------------------ claims, SpecAge
\* whole years from birth to exam
WholeYears(birth, exam) ==
    IF exam.month < birth.month \/ (exam.month = birth.month /\ exam.day < birth.day)
    THEN exam.year - birth.year - 1
    ELSE exam.year - birth.year

\* C9: for a birth date 'Mon D, YYYY' and a study date 'Mon D, YYYY' optionally
\* followed by ', HH:MM:SS', both as the normalizer writes them, calculate_age
\* returns exam.year - birth.year, less one exactly when the exam's (month, day)
\* precedes the birth's (month, day).
C9_AgeOfNormalizedDates ==
    Done("calculate_age") /\ call.normalized => ret = <<WholeYears(call.birth, call.exam)>>

\* no date and no four-digit year can be recovered from the string
Unrecoverable(s, formats) == FirstParse(s, formats, 1) = None /\ YearSearch(s) = None

\* the string has no date, and the fallback date of its year cannot be built
FallbackRaises(s, formats) ==
    /\ FirstParse(s, formats, 1) = None
    /\ YearSearch(s) # None
    /\ YearSearch(s)[1] < 1

\* C10: calculate_age ends in the unknown marker '-', never in a number, when
\* either input is empty, when no date and no 4-digit year can be recovered
\* from a string, and on every internal failure path (an exception while
\* parsing or while constructing a fallback date).
C10_FailurePathsEndUnknown ==
    LET birth == call.birth_date_str
        exam == call.exam_date_str
        failing(exam_fmts) ==
            \/ birth = <<>> \/ exam = <<>>
            \/ Unrecoverable(birth, date_formats) \/ Unrecoverable(exam, exam_fmts)
            \/ FallbackRaises(birth, date_formats) \/ FallbackRaises(exam, exam_fmts)
    IN  /\ Done("calculate_age") /\ failing(exam_formats) => ret = UnknownAge
        /\ Done("excel_calculate_age") /\ failing(excel_exam_formats) => ret = <<"-">>

\* the year written by the leftmost four consecutive digits of s (-1: none)
FourDigitYear(s) ==
    LET at == {k \in 1..(Len(s) - 3) : \A j \in k..(k + 3) : s[j] \in {Digits[n] : n \in 1..10}}
        first == CHOOSE k \in at : \A j \in at : k <= j
    IN  IF at = {} THEN 0 - 1
        ELSE 1000 * DigitVal(s[first]) + 100 * DigitVal(s[first + 1])
             + 10 * DigitVal(s[first + 2]) + DigitVal(s[first + 3])

\* the date the calculator is to use for s: the parsed one, else the given
\* month and day of the year found in s when that year is at least min_year
DateFor(s, formats, month, day, min_year) ==
    IF FirstParse(s, formats, 1) # None THEN FirstParse(s, formats, 1)
    ELSE IF FourDigitYear(s) >= min_year
         THEN <<[year |-> FourDigitYear(s), month |-> month, day |-> day]>>
         ELSE <<>>

\* the age by the birthday-adjusted formula when a fallback date is in use
FallbackAgeRule(min_year) ==
    LET exam_fmts == IF call.fn = "calculate_age" THEN exam_formats ELSE excel_exam_formats
        birth == DateFor(call.birth_date_str, date_formats, 1, 1, min_year)
        exam == DateFor(call.exam_date_str, exam_fmts, 6, 15, min_year)
        fallback == \/ FirstParse(call.birth_date_str, date_formats, 1) = None
                    \/ FirstParse(call.exam_date_str, exam_fmts, 1) = None
    IN  (Done("calculate_age") \/ Done("excel_calculate_age"))
        /\ call.birth_date_str # <<>> /\ call.exam_date_str # <<>>
        /\ fallback /\ birth # <<>> /\ exam # <<>>
        => IF call.fn = "calculate_age"
           THEN ret = <<WholeYears(birth[1], exam[1])>>
           ELSE ret = IntChars(WholeYears(birth[1], exam[1]))

\* C11 (as stated): a string that matches no accepted format but contains a
\* 4-digit year stands for January 1 of that year (birth) or June 15 of that
\* year (exam), and the birthday-adjusted formula is applied; every four
\* digits, 0000 included, count as a year.
C11_FallbackForEveryFourDigits == FallbackAgeRule(0)

\* C11 (amended): the same for a 4-digit year from 0001 to 9999, the years a
\* date can be built for; birth '1980' with exam '2024' gives 44.
C11_FallbackToYearOnly == FallbackAgeRule(1)

C11_Witness ==
    /\ Done("calculate_age")
    /\ call.birth_date_str = <<"1", "9", "8", "0">>
    /\ call.exam_date_str = <<"2", "0", "2", "4">>
    /\ ret = <<44>>

\* --------------------------------------------- claims, SpecDoc (continued)
HasRootItem(ds, code_value) ==
    \E k \in 1..Len(ds.ContentSequence) :
        ds.ContentSequence[k].ConceptNameCodeSequence = <<code_value>>

\* a report was extracted from a document without accumulated-dose container
ReportWithoutAccumulated ==
    /\ Done("extract_from_dicom")
    /\ ret # None
    /\ ~HasRootItem(call.ds, "113811")

\* C12 (as stated): without an accumulated-dose container (113811) in the root
\* sequence all four IrradiationInfo fields (start_time, end_time,
\* total_events, total_dlp) are the missing value, whatever else the root holds.
C12_AllFourFieldsMissing ==
    ReportWithoutAccumulated =>
        /\ ret[1].irradiation.start_time = <<>>
        /\ ret[1].irradiation.end_time = <<>>
        /\ ret[1].irradiation.total_events = ""
        /\ ret[1].irradiation.total_dlp = ""

\* C12 (amended): without an accumulated-dose container the two totals read
\* inside it (total_events, total_dlp) are the missing value whatever else the
\* root holds; start_time and end_time are read from the root sequence itself
\* and are the missing value when the root has no item of their code.
C12_TotalsMissingWithoutContainer ==
    ReportWithoutAccumulated =>
        /\ ret[1].irradiation.total_events = ""
        /\ ret[1].irradiation.total_dlp = ""
        /\ ~HasRootItem(call.ds, CT_codes.start_irradiation)
            => ret[1].irradiation.start_time = <<>>
        /\ ~HasRootItem(call.ds, CT_codes.end_irradiation)
            => ret[1].irradiation.end_time = <<>>

\* a root with a total outside any container and a start of irradiation
C12_Witness ==
    /\ ReportWithoutAccumulated
    /\ HasRootItem(call.ds, CT_codes.total_events)
    /\ HasRootItem(call.ds, CT_codes.start_irradiation)
    /\ ret[1].irradiation.total_events = ""
    /\ ret[1].irradiation.start_time # <<>>

\* the paths (child indices, outermost first) of the leaves below a sequence
RECURSIVE LeafPaths(_)
LeafPaths(content_sequence) ==
    UNION {IF content_sequence[k].HasContentSequence
           THEN {<<k>> \o path : path \in LeafPaths(content_sequence[k].ContentSequence)}
           ELSE {<<k>>} : k \in 1..Len(content_sequence)}

\* the leaf without its payload: only its concept code is left
Malformed(item) == [EmptyItem EXCEPT !.ConceptNameCodeSequence = item.ConceptNameCodeSequence]

\* the sequence with the leaf at `path` taken out or stripped of its payload
RECURSIVE ChangeAt(_, _, _)
ChangeAt(content_sequence, path, kind) ==
    LET k == path[1]
    IN  IF Len(path) > 1
        THEN [content_sequence EXCEPT
                ![k].ContentSequence = ChangeAt(@, Tail(path), kind)]
        ELSE IF kind = "absent"
        THEN SubSeq(content_sequence, 1, k - 1)
             \o SubSeq(content_sequence, k + 1, Len(content_sequence))
        ELSE [content_sequence EXCEPT ![k] = Malformed(@)]

\* no sibling of the leaf at `path` carries the leaf's concept code
RECURSIVE OnlyOfItsCode(_, _)
OnlyOfItsCode(content_sequence, path) ==
    IF Len(path) > 1
    THEN OnlyOfItsCode(content_sequence[path[1]].ContentSequence, Tail(path))
    ELSE \A j \in 1..Len(content_sequence) :
            j # path[1] => content_sequence[j].ConceptNameCodeSequence
                           # content_sequence[path[1]].ConceptNameCodeSequence

\* the changes of one leaf of the acquisition at root place r
LeafChanges(main_content, r) ==
    {<<path, kind>> \in LeafPaths(main_content[r].ContentSequence) \X {"absent", "malformed"} :
        kind = "absent" => OnlyOfItsCode(main_content[r].ContentSequence, path)}

ChangedDocument(ds, r, change) ==
    [ds EXCEPT !.ContentSequence[r].ContentSequence = ChangeAt(@, change[1], change[2])]

NestedRecords == {"acquisition_params", "xray_source_params", "ct_dose"}

OptionalFields ==
    {"pitch_factor", "exposure_time_per_rotation", "size_specific_dose", "ctdivol_alert_value"}

\* the leaf fields in which two acquisition records differ
FieldDiff(a, b) ==
    {<<"", f>> : f \in {g \in DOMAIN a \ NestedRecords : a[g] # b[g]}}
    \cup UNION {IF a[n] = b[n] THEN {}
                ELSE IF a[n] = <<>> \/ b[n] = <<>> THEN {<<n, "">>, <<n, "record">>}
                ELSE {<<n, f>> : f \in {g \in DOMAIN a[n][1] : a[n][1][g] # b[n][1][g]}}
                : n \in NestedRecords}

\* the value of the leaf field `field` of the record
FieldValue(acquisition, field) ==
    IF field[1] = "" THEN acquisition[field[2]] ELSE acquisition[field[1]][1][field[2]]

IsMissing(acquisition, field) ==
    IF field[2] \in OptionalFields
    THEN FieldValue(acquisition, field) \in {<<>>, <<"">>}
    ELSE FieldValue(acquisition, field) = ""

\* the place, among the records, of the acquisition at root place r
RecordOf(main_content, r) ==
    Cardinality({k \in 1..r : HasConceptCode(main_content[k], CT_codes.ct_acquisition)})

\* the root places of the acquisitions that have children
FilledAcquisitions(main_content) ==
    {r \in 1..Len(main_content) :
        HasConceptCode(main_content[r], CT_codes.ct_acquisition)
        /\ main_content[r].HasContentSequence}

\* C13: in a valid CT document, making one leaf of one acquisition absent or
\* malformed changes at most one field of that acquisition's record, and only
\* to the missing value; the other acquisition records, their number and
\* order, and the patient, device and irradiation records stay as they are.
C13_LeafFailureStaysLocal ==
    Done("extract_from_dicom") /\ ret # None =>
        \A r \in FilledAcquisitions(call.ds.ContentSequence) :
            \A change \in LeafChanges(call.ds.ContentSequence, r) :
                LET before == ret[1]
                    after == extract_from_dicom(ChangedDocument(call.ds, r, change))[1]
                    n == RecordOf(call.ds.ContentSequence, r)
                    diff == FieldDiff(before.acquisitions[n], after.acquisitions[n])
                IN  /\ [after EXCEPT !.acquisitions = <<>>] = [before EXCEPT !.acquisitions = <<>>]
                    /\ Len(after.acquisitions) = Len(before.acquisitions)
                    /\ \A m \in 1..Len(before.acquisitions) :
                          m # n => after.acquisitions[m] = before.acquisitions[m]
                    /\ Cardinality(diff) <= 1
                    /\ \A field \in diff : IsMissing(after.acquisitions[n], field)

\* two acquisitions, and a leaf of the first whose loss empties a dose field
C13_Witness ==
    /\ Done("extract_from_dicom")
    /\ ret # None
    /\ Len(ret[1].acquisitions) = 2
    /\ 1 \in FilledAcquisitions(call.ds.ContentSequence)
    /\ \E change \in LeafChanges(call.ds.ContentSequence, 1) :
          FieldDiff(ret[1].acquisitions[1],
                    extract_from_dicom(ChangedDocument(call.ds, 1, change))[1].acquisitions[1])
            = {<<"ct_dose", "mean_ctdivol">>}

\* the column of a header
ColumnOf(header) == CHOOSE k \in 1..Len(headers) : headers[k] = header

\* the columns that hold text ('-' when empty) in a row without event data
TextColumns ==
    {ColumnOf(h) : h \in {"Protocolo de aquisicao", "Lateralidade", "Projecao",
                           "Tipo de evento", "Material do anodo", "Filtro principal",
                           "Filtro secundario", "Filtro terciario", "Tipo de grade",
                           "Fonte da informacao de dose", "UID do evento"}}

\* C14: every row returned by extract_excel_data, the row of an irradiation
\* event and the single row of a document without events alike, has as many
\* values as there are headers (47), each under its own header: the patient
\* cells first, the dose source under "Fonte da informacao de dose", text
\* under the text columns and numbers (or nothing) under the numeric ones.
C14_RowsFollowTheHeaders ==
    Done("extract_excel_data") =>
        \A k \in 1..Len(ret) :
            /\ Len(ret[k]) = Len(headers)
            /\ SubSeq(ret[k], 1, Len(PatientCells(call.ds))) = PatientCells(call.ds)
            /\ ret[k][ColumnOf("Fonte da informacao de dose")]
                 = OrDash(DoseSource(call.ds.ContentSequence))
            /\ \A c \in (Len(PatientCells(call.ds)) + 1)..Len(headers) :
                  IF c \in TextColumns
                  THEN ret[k][c] \in STRING
                  ELSE ret[k][c] \in Seq(Int)

\* ------------------------------------------ claims, SpecNumeric (continued)
\* the places of the children whose concept code is the target
PlacesOfCode(content_sequence, code_value) ==
    {k \in 1..Len(content_sequence) :
        content_sequence[k].ConceptNameCodeSequence = <<code_value>>}

\* C15: find_content_by_code returns the first child, in sequence order, whose
\* concept code equals the target, and None when no child matches; children
\* without a concept code are skipped and never returned.
C15_FirstMatchingChild ==
    LET places == PlacesOfCode(call.content_sequence, call.code_value)
    IN  Done("find_content_by_code") =>
            /\ places = {} => ret = <<>>
            /\ places # {} =>
                 ret = <<call.content_sequence[CHOOSE k \in places : \A j \in places : k <= j]>>
            /\ ret # <<>> => ret[1].ConceptNameCodeSequence # <<>>

\* an uncoded child first, then two different children of the target code
C15_Witness ==
    /\ Done("find_content_by_code")
    /\ Len(call.content_sequence) = 3
    /\ call.content_sequence[1].ConceptNameCodeSequence = <<>>
    /\ PlacesOfCode(call.content_sequence, call.code_value) = {2, 3}
    /\ call.content_sequence[2] # call.content_sequence[3]
    /\ ret = <<call.content_sequence[2]>>

\* --------------------------------------------- claims, SpecDoc (continued)
HasChild(content_sequence, code_value) ==
    \E k \in 1..Len(content_sequence) :
        content_sequence[k].ConceptNameCodeSequence = <<code_value>>

\* a direct child of the sequence has the first code and, directly below it,
\* a child of the second code
HasGrandChild(content_sequence, code_value, below) ==
    \E k \in 1..Len(content_sequence) :
        /\ content_sequence[k].ConceptNameCodeSequence = <<code_value>>
        /\ HasChild(content_sequence[k].ContentSequence, below)

\* the root items coded as CT acquisitions, in order
RootAcquisitions(main_content) ==
    LET places == {k \in 1..Len(main_content) :
                      main_content[k].ConceptNameCodeSequence = <<CT_codes.ct_acquisition>>}
    IN  [n \in 1..Cardinality(places) |-> main_content[Nth(places, n)]]

\* C16: a lookup never crosses a container boundary: a value is extracted for
\* a field only from a direct child of the container searched for it.  Device
\* fields and the irradiation times come from direct children of the root,
\* the totals from direct children of a root item coded 113811, acquisition
\* records from root items coded 113819 only, and the fields of a record from
\* direct children of its container (dose fields from a direct child of its
\* dose container).
C16_NoLookupAcrossContainers ==
    Done("extract_from_dicom") /\ ret # None =>
        LET root == call.ds.ContentSequence
            report == ret[1]
            containers == RootAcquisitions(root)
        IN  /\ report.device.observer_name # ""
                => HasChild(root, CT_codes.device_observer_name)
            /\ report.irradiation.start_time # <<>>
                => HasChild(root, CT_codes.start_irradiation)
            /\ report.irradiation.end_time # <<>>
                => HasChild(root, CT_codes.end_irradiation)
            /\ report.irradiation.total_events # ""
                => HasGrandChild(root, CT_accumulated_dose, CT_codes.total_events)
            /\ report.irradiation.total_dlp # ""
                => HasGrandChild(root, CT_accumulated_dose, CT_codes.total_dlp)
            /\ Len(report.acquisitions) = Len(containers)
            /\ \A n \in 1..Len(containers) :
                LET record == report.acquisitions[n]
                    children == containers[n].ContentSequence
                IN  /\ record.protocol # ""
                        => HasChild(children, CT_codes.acquisition_protocol)
                    /\ record.comment # "" => HasChild(children, CT_codes.comment)
                    /\ record.ct_dose # <<>> => HasChild(children, CT_codes.ct_dose)
                    /\ record.ct_dose # <<>> /\ record.ct_dose[1].mean_ctdivol # ""
                        => HasGrandChild(children, CT_codes.ct_dose, CT_codes.mean_ctdivol)
                    /\ record.acquisition_params # <<>>
                       /\ record.acquisition_params[1].exposure_time # ""
                        => HasGrandChild(children, CT_codes.acquisition_params,
                                         CT_codes.exposure_time)

\* wanted codes sit one level below the root only, and nothing is extracted
C16_Witness ==
    /\ Done("extract_from_dicom")
    /\ ret # None
    /\ HasGrandChild(call.ds.ContentSequence, CT_codes.ct_dose, CT_codes.ct_acquisition)
    /\ HasGrandChild(call.ds.ContentSequence, CT_codes.ct_dose, CT_codes.device_observer_name)
    /\ ~HasChild(call.ds.ContentSequence, CT_codes.ct_acquisition)
    /\ ~HasChild(call.ds.ContentSequence, CT_codes.device_observer_name)
    /\ ret[1].acquisitions = <<>>
    /\ ret[1].device.observer_name = ""
    /\ ret[1].irradiation.end_time = <<>>
    /\ ret[1].irradiation.total_dlp = ""

\* ------------------------------------------ claims, SpecNumeric (continued)
\* the item has no measurement payload: no measured value, or one without number
NoPayload(item) ==
    \/ item.MeasuredValueSequence = <<>>
    \/ item.MeasuredValueSequence[1].NumericValue = ""

\* C17: get_numeric_value_with_unit returns '<value> <unit>' when the node has
\* a numeric value and a unit meaning, the bare value when the unit is absent,
\* and the missing value '' when the node has no measurement payload; on such a
\* node get_numeric_value_only returns '' and get_numeric_value_as_float None.
C17_ValueWithUnitOrBareOrMissing ==
    LET first == call.content_sequence[1]
        measured == first.MeasuredValueSequence[1]
    IN  /\ Done("get_numeric_value_with_unit") /\ HasNumber(first) =>
              IF measured.MeasurementUnitsCodeSequence # <<>>
              THEN ret = measured.NumericValue \o " " \o measured.MeasurementUnitsCodeSequence[1]
              ELSE ret = measured.NumericValue
        /\ Done("get_numeric_value_with_unit") /\ NoPayload(first) => ret = ""
        /\ Done("get_numeric_value_only") /\ NoPayload(first) => ret = ""
        /\ Done("get_numeric_value_as_float") /\ NoPayload(first) => ret = <<>>

\* ------------------------------------------------ claims, Spec (continued)
\* the attempts j and k were made on the same document (at two paths)
SameDocument(j, k) ==
    [dicom_files[j] EXCEPT !.file_path = ""] = [dicom_files[k] EXCEPT !.file_path = ""]

\* what an attempt extracted, the path of the file left out
RecordOfAttempt(k) ==
    IF call.fn = "generate_excel_direct" \/ attempts[k].result = <<>>
    THEN attempts[k].result
    ELSE <<[attempts[k].result[1] EXCEPT !.file_path = ""]>>

C19_InputsAndCodesUnchanged ==
    [][dicom_files' = dicom_files /\ concept_codes' = concept_codes]_vars

\* three documents with content trees have been extracted
C19_Witness ==
    /\ pc = "done"
    /\ processed_count = 3
    /\ \A k \in 1..3 : dicom_files[k].ContentSequence # <<>>
    /\ concept_codes.DICOMDoseExtractor = CT_codes

\* =========================================================================
\* SpecDate: the date normalizer on a DA value, then the age calculator's
\* parse of what it wrote
\* =========================================================================
\* the year, month and day fields of the DA values, real dates or not
DateYears == {0, 1, 999, 1980, 2024, 9999}

DateMonths == {0, 1, 2, 6, 12, 13}

DateDays == {0, 1, 9, 10, 28, 29, 30, 31, 32}

\* values that are no eight digits: empty, short, a month or day that is no
\* number, a signed month
OtherDates ==
    {<<>>, <<"2", "0", "2", "4">>, <<"2", "0", "2", "4", "0", "1", "1">>,
     <<"2", "0", "2", "4", "a", "b", "0", "5">>, <<"2", "0", "2", "4", "0", "1", "x", "x">>,
     <<"2", "0", "2", "4", "-", "1", "0", "5">>}

InitDate ==
    /\ pc = "start"
    /\ call \in {[fn |-> "", year |-> y, month |-> m, day |-> d,
                  date_str |-> Chars8(y, m, d), display |-> <<>>] :
                    y \in DateYears, m \in DateMonths, d \in DateDays}
                 \cup
                 {[fn |-> "", year |-> 0 - 1, month |-> 0 - 1, day |-> 0 - 1,
                   date_str |-> s, display |-> <<>>] : s \in OtherDates}
    /\ ret = <<>>
    /\ NoBatch

\* format_date on the DA value
FormatDate ==
    /\ pc = "start"
    /\ call' = [call EXCEPT !.fn = "format_date", !.display = format_date(call.date_str)]
    /\ ret' = format_date(call.date_str)
    /\ pc' = "formatted"
    /\ BatchUnchanged

\* calculate_age's parse of the birth date: the first format that accepts it
ParseBirthDate ==
    /\ pc = "formatted"
    /\ call' = [call EXCEPT !.fn = "calculate_age"]
    /\ ret' = FirstParse(call.display, date_formats, 1)
    /\ pc' = "done"
    /\ BatchUnchanged

NextDate == FormatDate \/ ParseBirthDate

SpecDate == InitDate /\ [][NextDate]_vars

\* ----------------------------------------------------------- claims, SpecDate
EnglishMonth(m) ==
    CASE m = 1 -> <<"J", "a", "n">> [] m = 2 -> <<"F", "e", "b">> [] m = 3 -> <<"M", "a", "r">>
      [] m = 4 -> <<"A", "p", "r">> [] m = 5 -> <<"M", "a", "y">> [] m = 6 -> <<"J", "u", "n">>
      [] m = 7 -> <<"J", "u", "l">> [] m = 8 -> <<"A", "u", "g">> [] m = 9 -> <<"S", "e", "p">>
      [] m = 10 -> <<"O", "c", "t">> [] m = 11 -> <<"N", "o", "v">> [] m = 12 -> <<"D", "e", "c">>

\* the day number written without a leading zero
PlainDay(d) == IF d < 10 THEN <<Digits[d + 1]>> ELSE <<Digits[(d \div 10) + 1], Digits[(d % 10) + 1]>>

\* a date of the Gregorian calendar, whose years start at 1
CalendarDate(y, m, d) ==
    /\ y >= 1
    /\ m \in 1..12
    /\ d >= 1
    /\ d <= (IF m = 2 THEN (IF (y % 4 = 0 /\ y % 100 # 0) \/ y % 400 = 0 THEN 29 ELSE 28)
             ELSE IF m \in {4, 6, 9, 11} THEN 30 ELSE 31)

\* C20: format_date maps every 8-digit date YYYYMMDD with month 01..12 to
\* '<Mon> <D>, <YYYY>' (English three-letter month, day without leading zero,
\* the four year digits unchanged), and calculate_age's first format parses
\* the result back to the same year, month and day whenever YYYYMMDD is a
\* real calendar date.
C20_DisplayFormRoundTrips ==
    /\ pc # "start" /\ call.month \in 1..12 =>
        call.display = EnglishMonth(call.month) \o <<" ">> \o PlainDay(call.day)
                       \o <<",", " ">> \o SubSeq(call.date_str, 1, 4)
    /\ pc = "done" /\ CalendarDate(call.year, call.month, call.day) =>
        /\ strptime(call.display, fmt_b_d_Y) # {}
        /\ ret = <<[year |-> call.year, month |-> call.month, day |-> call.day]>>

\* 29 February 2024 written as 'Feb 29, 2024' and read back
C20_Witness ==
    /\ pc = "done"
    /\ call.date_str = <<"2", "0", "2", "4", "0", "2", "2", "9">>
    /\ call.display = <<"F", "e", "b", " ", "2", "9", ",", " ", "2", "0", "2", "4">>
    /\ ret = <<[year |-> 2024, month |-> 2, day |-> 29]>>

\* a value format_date cannot read as a date: short, a month or a day that is
\* not two digits, or a month outside 01..12
IsMalformedDate(s) ==
    \/ Len(s) < 8
    \/ ~AllDigits(SubSeq(s, 5, 6))
    \/ ~AllDigits(SubSeq(s, 7, 8))
    \/ NatOf(SubSeq(s, 5, 6)) \notin 1..12

\* C21: format_date returns its input unchanged, without raising, for every
\* malformed or short input: fewer than 8 characters, a non-numeric month or
\* day, or a month outside 01..12 (month '00' included).
C21_MalformedPassesThrough ==
    pc # "start" /\ IsMalformedDate(call.date_str) => call.display = call.date_str

\* =========================================================================
\* SpecDatetime: the datetime getter on a content item
\* =========================================================================
\* the time of day of a DT value: none, hours only, six digits, six digits
\* and a fraction
DtTimes ==
    {<<>>, <<"1", "0">>, <<"1", "0", "1", "5", "0", "0">>, <<"2", "3", "5", "9", "5", "9">>,
     <<"1", "0", "1", "5", "0", "0", ".", "5">>}

\* the DateTime attribute of a content item; <<>> when the item has none
DtValues ==
    {<<>>} \cup {Chars8(y, m, d) \o t : y \in {1980, 2024}, m \in {1, 6, 12}, d \in {1, 15, 31},
                                        t \in DtTimes}

InitDatetime ==
    /\ pc = "start"
    /\ call \in {[fn |-> "", content_item |-> [Coded(CT_codes.start_irradiation) EXCEPT !.DateTime = v]] :
                    v \in DtValues}
    /\ ret = <<>>
    /\ NoBatch

\* get_datetime_value on the item
GetDatetimeValue ==
    /\ pc = "start"
    /\ call' = [call EXCEPT !.fn = "get_datetime_value"]
    /\ ret' = get_datetime_value(call.content_item)
    /\ pc' = "done"
    /\ BatchUnchanged

NextDatetime == GetDatetimeValue

SpecDatetime == InitDatetime /\ [][NextDatetime]_vars

\* ------------------------------------------------------- claims, SpecDatetime
\* the digits of the value before its fraction
WholePart(v) == IF \E k \in 1..Len(v) : v[k] = "."
                THEN SubSeq(v, 1, (CHOOSE k \in 1..Len(v) : v[k] = ".") - 1)
                ELSE v

HasTimeOfDay(v) == Len(WholePart(v)) >= 14

\* the date normalizer's form of the value: 'Mon D, YYYY[, HH:MM:SS]'
NormalizerForm(v) ==
    study_date_with_time(SubSeq(v, 1, 8), IF HasTimeOfDay(v) THEN SubSeq(v, 9, 14) ELSE <<>>)

\* 'YYYY-MM-DD[ HH:MM:SS]'
DashedForm(v) ==
    <<v[1], v[2], v[3], v[4], "-", v[5], v[6], "-", v[7], v[8]>>
    \o (IF HasTimeOfDay(v)
        THEN <<" ", v[9], v[10], ":", v[11], v[12], ":", v[13], v[14]>>
        ELSE <<>>)

\* C22 as stated: get_datetime_value returns the date/time in the date
\* normalizer's display form 'Mon D, YYYY' optionally followed by
\* ', HH:MM:SS', and the missing value when the node has no date/time.
C22_DatetimeInNormalizerForm ==
    pc = "done" =>
        ret = (IF call.content_item.DateTime = <<>> THEN <<>>
               ELSE NormalizerForm(call.content_item.DateTime))

\* C22: get_datetime_value returns a node's date/time (YYYYMMDD, optionally
\* followed by HHMMSS and a fraction) as 'YYYY-MM-DD', followed by
\* ' HH:MM:SS' when the value carries the six time digits, and the missing
\* value when the node has no date/time payload.
C22_DatetimeInDashedForm ==
    pc = "done" =>
        ret = (IF call.content_item.DateTime = <<>> THEN <<>>
               ELSE DashedForm(call.content_item.DateTime))

\* a value with time and fraction, returned with the time and without the fraction
C22_Witness ==
    /\ pc = "done"
    /\ call.content_item.DateTime = Chars8(2024, 6, 15) \o <<"1", "0", "1", "5", "0", "0", ".", "5">>
    /\ ret = <<"2", "0", "2", "4", "-", "0", "6", "-", "1", "5", " ",
               "1", "0", ":", "1", "5", ":", "0", "0">>

\* =========================================================================
\* SpecAcq: extract_ct_acquisitions on a root sequence whose first item is an
\* acquisition container with up to MaxChildren children
\* =========================================================================
SourceParams(kvp) == Container(CT_codes.xray_source_params, <<NumItem(CT_codes.kvp, kvp, "kV")>>)

\* the children an acquisition container is built from
AcqChildren ==
    {TextItem(CT_codes.acquisition_protocol, "P"),
     \* acquisition parameters with one, with two and without source parameters
     Container(CT_codes.acquisition_params,
         <<NumItem(CT_codes.exposure_time, "2", "s"), SourceParams("80")>>),
     Container(CT_codes.acquisition_params, <<SourceParams("90"), SourceParams("100")>>),
     Container(CT_codes.acquisition_params, <<NumItem(CT_codes.exposure_time, "3", "s")>>),
     \* source parameters directly under the acquisition
     SourceParams("70"),
     \* dose containers: two fields; one field given twice; no ContentSequence
     Container(CT_codes.ct_dose,
         <<NumItem(CT_codes.mean_ctdivol, "1", "mGy"), NumItem(CT_codes.dlp, "100", "mGy.cm")>>),
     Container(CT_codes.ct_dose,
         <<NumItem(CT_codes.mean_ctdivol, "2", "mGy"), NumItem(CT_codes.mean_ctdivol, "3", "mGy")>>),
     Coded(CT_codes.ct_dose)}

\* what follows the acquisition in the root sequence
LaterItems == {<<>>, <<AcqA>>, <<AcqB, AcqA>>}

InitAcq ==
    /\ pc = "start"
    /\ call \in {[fn |-> "",
                  content_sequence |-> <<Container(CT_codes.ct_acquisition, children)>> \o later] :
                    children \in SeqsUpTo(AcqChildren, MaxChildren), later \in LaterItems}
    /\ ret = <<>>
    /\ NoBatch

ExtractCtAcquisitions ==
    /\ pc = "start"
    /\ call' = [call EXCEPT !.fn = "extract_ct_acquisitions"]
    /\ ret' = extract_ct_acquisitions(call.content_sequence)
    /\ pc' = "done"
    /\ BatchUnchanged

NextAcq == ExtractCtAcquisitions

SpecAcq == InitAcq /\ [][NextAcq]_vars

\* ------------------------------------------------------------ claims, SpecAcq
\* the children of the first acquisition of the call
FirstChildren == call.content_sequence[1].ContentSequence

\* the places of the children with the code
ChildPlaces(content_sequence, code_value) ==
    {k \in 1..Len(content_sequence) : content_sequence[k].ConceptNameCodeSequence = <<code_value>>}

\* a sub-record is there and every field of it is missing
EmptySubRecord(sub_record) ==
    /\ sub_record # <<>>
    /\ \A f \in DOMAIN sub_record[1] :
         IF f \in OptionalFields THEN sub_record[1][f] = <<>> ELSE sub_record[1][f] = ""

\* no sub-record at all: the None that CTAcquisition() starts with
NoSubRecord(sub_record) == sub_record = <<>>

\* the later acquisitions of the call are extracted as usual
LaterAcquisitionsAsUsual ==
    /\ Len(ret) = Len(call.content_sequence)
    /\ \A n \in 2..Len(ret) :
         /\ ret[n].protocol = ProtocolOf(call.content_sequence[n])
         /\ call.content_sequence[n] = AcqA =>
              /\ ret[n].ct_dose # <<>> /\ ret[n].ct_dose[1].dlp = "100 mGy.cm"
              /\ ret[n].acquisition_params # <<>>
              /\ ret[n].xray_source_params # <<>> /\ ret[n].xray_source_params[1].kvp = "80 kV"

\* C23 as stated: for a CT acquisition container that lacks an expected
\* sub-container (dose 113829, acquisition parameters 113822 or x-ray source
\* parameters 113831) the walk does not abort: the record is still produced,
\* with an empty sub-record (a sub-record whose fields are all missing) in
\* that position, and all later acquisitions are extracted as usual.
C23_MissingContainerGivesEmptySubRecord ==
    pc = "done" =>
        /\ LaterAcquisitionsAsUsual
        /\ ChildPlaces(FirstChildren, CT_codes.ct_dose) = {} => EmptySubRecord(ret[1].ct_dose)
        /\ ChildPlaces(FirstChildren, CT_codes.acquisition_params) = {}
            => EmptySubRecord(ret[1].acquisition_params)
        /\ ~HasGrandChild(FirstChildren, CT_codes.acquisition_params, CT_codes.xray_source_params)
            => EmptySubRecord(ret[1].xray_source_params)

\* C23: for a CT acquisition container that lacks an expected sub-container
\* the walk does not abort: the record is still produced, with no sub-record
\* (None) in that position, and all later acquisitions are extracted as
\* usual.
C23_MissingContainerGivesNoSubRecord ==
    pc = "done" =>
        /\ LaterAcquisitionsAsUsual
        /\ ChildPlaces(FirstChildren, CT_codes.ct_dose) = {} => NoSubRecord(ret[1].ct_dose)
        /\ ChildPlaces(FirstChildren, CT_codes.acquisition_params) = {}
            => NoSubRecord(ret[1].acquisition_params)
        /\ ~HasGrandChild(FirstChildren, CT_codes.acquisition_params, CT_codes.xray_source_params)
            => NoSubRecord(ret[1].xray_source_params)
        /\ ChildPlaces(FirstChildren, CT_codes.acquisition_protocol) # {} => ret[1].protocol = "P"

\* an acquisition with a protocol and parameters but no dose container, and
\* two acquisitions after it
C23_Witness ==
    /\ pc = "done"
    /\ Len(ret) = 3
    /\ ChildPlaces(FirstChildren, CT_codes.ct_dose) = {}
    /\ ChildPlaces(FirstChildren, CT_codes.acquisition_params) # {}
    /\ ret[1].protocol = "P"
    /\ ret[1].ct_dose = <<>>
    /\ ret[1].acquisition_params # <<>>
    /\ ret[1].xray_source_params = <<>>
    /\ ret[3].ct_dose # <<>>

\* =========================================================================
\* SpecExcel: json_to_excel on the reports of a consolidated JSON file
\* =========================================================================
\* patient ids as the documents carry them
PatientIds == {<<>>, <<"-">>, <<"4", "2">>, <<"0", "4", "2">>, <<"A", "1">>}

\* the reports the extractor writes for documents with zero, one and two
\* acquisitions
ExcelReports ==
    {extract_from_dicom([SRDataset(cs) EXCEPT !.PatientID = id])[1] :
        cs \in {<<>>, <<AcqA>>, <<AcqB, AcqA>>}, id \in PatientIds}

InitExcel ==
    /\ pc = "start"
    /\ call \in {[fn |-> "", reports |-> r] : r \in SeqsUpTo(ExcelReports, MaxReports)}
    /\ ret = <<>>
    /\ NoBatch

JsonToExcel ==
    /\ pc = "start"
    /\ call' = [call EXCEPT !.fn = "json_to_excel"]
    /\ ret' = json_to_excel(call.reports)
    /\ pc' = "done"
    /\ BatchUnchanged

NextExcel == JsonToExcel

SpecExcel == InitExcel /\ [][NextExcel]_vars

\* ---------------------------------------------------------- claims, SpecExcel
\* max(1, number of acquisitions)
RowsOf(report) == IF Len(report.acquisitions) > 1 THEN Len(report.acquisitions) ELSE 1

\* the number of rows written before those of report k
RECURSIVE RowsBefore(_, _)
RowsBefore(reports_read, k) ==
    IF k = 1 THEN 0 ELSE RowsBefore(reports_read, k - 1) + RowsOf(reports_read[k - 1])

\* C24: json_to_excel writes one data row per acquisition of each report, in
\* report order and then acquisition order, and one row (patient fields and
\* '-' placeholders) for a report without acquisitions; the number of rows is
\* the sum over the reports of max(1, number of acquisitions), and rows of
\* different reports never interleave.
C24_OneRowPerAcquisition ==
    pc = "done" =>
        /\ Len(ret) = RowsBefore(call.reports, Len(call.reports) + 1)
        /\ \A k \in 1..Len(call.reports) :
             LET report == call.reports[k]
                 first == RowsBefore(call.reports, k)
             IN  /\ \A a \in 1..RowsOf(report) :
                      /\ ret[first + a][1] = PatientIdValue(report.essential.patient_id)
                      /\ ret[first + a][2] = report.essential.patient_name
                      /\ ret[first + a][14] = report.irradiation.total_dlp
                 /\ \A a \in 1..Len(report.acquisitions) :
                      ret[first + a][6] = report.acquisitions[a].protocol
                 /\ report.acquisitions = <<>> =>
                      \A c \in {6, 8, 9, 10, 11, 12, 13, 15, 16, 17} : ret[first + 1][c] = "-"

\* a report with two acquisitions, then one without: three rows, the last
\* one the placeholder row of the second report
C24_Witness ==
    /\ pc = "done"
    /\ Len(call.reports) = 2
    /\ Len(call.reports[1].acquisitions) = 2
    /\ call.reports[2].acquisitions = <<>>
    /\ call.reports[1].essential.patient_id # call.reports[2].essential.patient_id
    /\ Len(ret) = 3
    /\ ret[1][6] = "B" /\ ret[2][6] = "A" /\ ret[3][6] = "-"

\* C30: the patient id written by json_to_excel in the 'ID do paciente' column
\* determines the source patient_id string: two reports with different
\* patient_id strings never get the same cell value (an all-digit id is
\* written as the integer it denotes, any other non-empty id unchanged, an
\* empty id as '-').
C30_PatientIdCellDeterminesId ==
    pc = "done" =>
        \A j, k \in 1..Len(call.reports) :
            call.reports[j].essential.patient_id # call.reports[k].essential.patient_id
                => ret[RowsBefore(call.reports, j) + 1][1]
                       # ret[RowsBefore(call.reports, k) + 1][1]

\* =========================================================================
\* SpecMammo: extract_excel_data on a document with one irradiation event of
\* up to MaxChildren children and an accumulated-dose container before or
\* after it
\* =========================================================================
Structure(meaning) ==
    Container(Mammo_codes.anatomical_structure, <<MeaningItem(Mammo_codes.laterality, meaning)>>)

\* the children an event is built from: kVp samples (one of value 0, one with
\* four decimals, one that is no number), a pulse width, the two sides
EventChildren ==
    {NumItem(Mammo_codes.kvp, "80", "kV"), NumItem(Mammo_codes.kvp, "90", "kV"),
     NumItem(Mammo_codes.kvp, "0", "kV"), NumItem(Mammo_codes.kvp, "2.0004", "kV"),
     NumItem(Mammo_codes.kvp, "x", "kV"), NumItem(Mammo_codes.pulse_width, "2", "ms"),
     Structure("Left breast"), Structure("Right breast")}

\* an accumulated AGD of one side
AccumulatedAgd(value, meaning) ==
    [NumItem(Mammo_codes.accumulated_agd, value, "mGy") EXCEPT
        !.HasContentSequence = TRUE,
        !.ContentSequence = <<MeaningItem(Mammo_codes.laterality, meaning)>>]

\* accumulated-dose containers: both sides exposed; the left side not exposed
AccumulatedContainers ==
    {Container(Mammo_codes.accumulated_dose_data,
         <<AccumulatedAgd("2", "Left breast"), AccumulatedAgd("1", "Right breast")>>),
     Container(Mammo_codes.accumulated_dose_data,
         <<AccumulatedAgd("0", "Left breast"), AccumulatedAgd("1", "Right breast")>>)}

MammoRoots ==
    {<<Container(Mammo_codes.irradiation_event, children)>> :
        children \in SeqsUpTo(EventChildren, MaxChildren)}
    \cup {<<accumulated, Container(Mammo_codes.irradiation_event, children)>> :
            accumulated \in AccumulatedContainers,
            children \in SeqsUpTo(EventChildren, MaxChildren)}
    \cup {<<Container(Mammo_codes.irradiation_event, children), accumulated>> :
            accumulated \in AccumulatedContainers,
            children \in SeqsUpTo(EventChildren, MaxChildren)}

InitMammo ==
    /\ pc = "start"
    /\ call \in {[fn |-> "", ds |-> SRDataset(root)] : root \in MammoRoots}
    /\ ret = <<>>
    /\ NoBatch

NextMammo == ExtractExcelData

SpecMammo == InitMammo /\ [][NextMammo]_vars

\* ---------------------------------------------------------- claims, SpecMammo
\* the children of the document's event
EventContent ==
    LET root == call.ds.ContentSequence
    IN  root[CHOOSE k \in 1..Len(root) :
                root[k].ConceptNameCodeSequence = <<"113706">>].ContentSequence

\* the accumulated AGD values the root-level accumulated-dose containers
\* record for the side
RecordedAgd(side) ==
    LET root == call.ds.ContentSequence
    IN  {NumberOf(root[k].ContentSequence[j]) :
            k \in {k \in 1..Len(root) : root[k].ConceptNameCodeSequence = <<"113702">>},
            j \in {j \in 1..MaxChildren :
                    /\ \E k \in 1..Len(root) :
                         /\ root[k].ConceptNameCodeSequence = <<"113702">>
                         /\ j <= Len(root[k].ContentSequence)
                         /\ root[k].ContentSequence[j].ConceptNameCodeSequence = <<"111637">>
                         /\ HasNumber(root[k].ContentSequence[j])
                         /\ \E l \in 1..Len(root[k].ContentSequence[j].ContentSequence) :
                              LET child == root[k].ContentSequence[j].ContentSequence[l]
                              IN  /\ child.ConceptNameCodeSequence = <<"G-C171">>
                                  /\ child.ConceptCodeSequence = <<side \o " breast">>}}

\* C25: each event row's accumulated-dose value is the accumulated AGD
\* recorded for the row's own laterality in the root-level accumulated-dose
\* container, whether the container comes before or after the event; it is
\* missing when the event has no laterality or no accumulated value exists
\* for that side; a Left event never receives the Right value or vice versa.
C25_AccumulatedDoseOfOwnSide ==
    Done("extract_excel_data") =>
        LET side == ret[1][ColumnOf("Lateralidade")]
            accumulated == ret[1][ColumnOf("Dose glandular acumulada")]
        IN  /\ Len(ret) = 1
            /\ IF side = "-" THEN accumulated = <<>>
               ELSE IF RecordedAgd(side) = {} THEN accumulated = <<>>
               ELSE accumulated # <<>> /\ accumulated[1] \in RecordedAgd(side)

\* the first-value column, its minimum and maximum columns, and the code
FirstValueColumns ==
    {[first |-> "kVp", min |-> "kVp minimo", max |-> "kVp maximo", code |-> "113733"],
     [first |-> "Corrente do tubo (mA)", min |-> "mA minimo", max |-> "mA maximo",
      code |-> "113734"],
     [first |-> "Largura do pulso", min |-> "Pulse width minimo",
      max |-> "Pulse width maximo", code |-> "113793"]}

\* the first-value cell is missing exactly when nothing was collected, and
\* otherwise is the first collected sample
FirstValueIsFirstSample(col) ==
    LET stats == aggregate_multiple_values(EventContent, col.code)
        samples == CollectValues(EventContent, col.code, 1, <<>>)
        cell == ret[1][ColumnOf(col.first)]
    IN  /\ (cell = <<>>) <=> (stats.count = 0)
        /\ stats.count > 0 => cell = <<samples[1]>>
        /\ ret[1][ColumnOf(col.min)] = stats.min
        /\ ret[1][ColumnOf(col.max)] = stats.max

\* C26 as stated: for every event row each first-value column (kVp, tube
\* current, pulse width) is missing exactly when the aggregate count over the
\* event's children is 0, and otherwise equals the first collected sample of
\* that code in encounter order, hence lies between the aggregate min and max.
C26_FirstValueBetweenMinAndMax ==
    Done("extract_excel_data") =>
        \A col \in FirstValueColumns :
            /\ FirstValueIsFirstSample(col)
            /\ ret[1][ColumnOf(col.first)] # <<>> =>
                 /\ ret[1][ColumnOf(col.min)][1] <= ret[1][ColumnOf(col.first)][1]
                 /\ ret[1][ColumnOf(col.first)][1] <= ret[1][ColumnOf(col.max)][1]

\* C26: for every event row each first-value column is missing exactly when
\* the aggregate count over the event's children is 0, and otherwise equals
\* the first collected sample of that code in encounter order, hence lies
\* between the aggregate min and max up to their rounding to three decimals
\* (min - 0.0005 <= first value <= max + 0.0005).
C26_FirstValueWithinRoundedMinAndMax ==
    Done("extract_excel_data") =>
        \A col \in FirstValueColumns :
            /\ FirstValueIsFirstSample(col)
            /\ ret[1][ColumnOf(col.first)] # <<>> =>
                 /\ ret[1][ColumnOf(col.min)][1] - 5 <= ret[1][ColumnOf(col.first)][1]
                 /\ ret[1][ColumnOf(col.first)][1] <= ret[1][ColumnOf(col.max)][1] + 5

\* a zero, then 2.0004, then 80: the kVp cell is 2.0004, the first collected
\* sample, above the rounded minimum 2.0
C26_Witness ==
    /\ Done("extract_excel_data")
    /\ Len(EventContent) = 3
    /\ EventContent[1].MeasuredValueSequence # <<>>
    /\ EventContent[1].MeasuredValueSequence[1].NumericValue = "0"
    /\ ret[1][ColumnOf("kVp")] = <<20004>>
    /\ ret[1][ColumnOf("kVp minimo")] = <<20000>>
    /\ ret[1][ColumnOf("kVp maximo")] = <<800000>>
    /\ ret[1][ColumnOf("Largura do pulso")] = <<>>
    /\ ret[1][ColumnOf("Total pulsos registrados")] = <<0>>

\* --------------------------------------------- claims, SpecAge (continued)
\* the mammography calculator's result written as the Excel calculator
\* writes it: '-' or the decimal string of the age
AgeAsText(age) == IF age = UnknownAge THEN <<"-">> ELSE IntChars(age[1])

\* C27: the two age calculators agree: for every pair of input strings
\* DICOMDoseExcel.calculate_age and DICOMMamographyExtractor.calculate_age
\* either both return '-' or return the same age (the first as a decimal
\* string, the second as an integer).
C27_AgeCalculatorsAgree ==
    /\ Done("calculate_age") =>
         AgeAsText(ret) = excel_calculate_age(call.birth_date_str, call.exam_date_str)
    /\ Done("excel_calculate_age") =>
         ret = AgeAsText(calculate_age(call.birth_date_str, call.exam_date_str))

\* --------------------------------------------- claims, SpecAcq (continued)
\* the kVp of the first source-parameters container (113831) directly below
\* the acquisition-parameters container at place p of the children
FirstSourceKvp(children, p) ==
    LET params == children[p].ContentSequence
        sources == ChildPlaces(params, CT_codes.xray_source_params)
    IN  params[Nth(sources, 1)].ContentSequence[1].MeasuredValueSequence[1].NumericValue
        \o " kV"

\* the acquisition-parameters containers of the children that hold a
\* source-parameters container
ParamsWithSource(children) ==
    {p \in ChildPlaces(children, CT_codes.acquisition_params) :
        ChildPlaces(children[p].ContentSequence, CT_codes.xray_source_params) # {}}

\* C28 as stated: x-ray source parameters are taken only from a
\* source-parameters container (113831) that is a direct child of an
\* acquisition-parameters container (113822) of the acquisition, using the
\* first such container; a source-parameters container directly under the
\* acquisition, or an acquisition without acquisition-parameters container,
\* leaves xray_source_params unset.
C28_FirstSourceParamsBelowParams ==
    pc = "done" =>
        IF ParamsWithSource(FirstChildren) = {} THEN ret[1].xray_source_params = <<>>
        ELSE /\ ret[1].xray_source_params # <<>>
             /\ ret[1].xray_source_params[1].kvp =
                    FirstSourceKvp(FirstChildren, Nth(ParamsWithSource(FirstChildren), 1))

\* the greatest element of a non-empty set of numbers
Greatest(S) == CHOOSE x \in S : \A y \in S : y <= x

\* C28: x-ray source parameters are taken only from a source-parameters
\* container that is a direct child of an acquisition-parameters container of
\* the acquisition: from the first such container inside the last
\* acquisition-parameters container that holds one; a source-parameters
\* container directly under the acquisition, or an acquisition without
\* acquisition-parameters container, leaves xray_source_params unset.
C28_FirstSourceParamsOfLastParams ==
    pc = "done" =>
        IF ParamsWithSource(FirstChildren) = {} THEN ret[1].xray_source_params = <<>>
        ELSE /\ ret[1].xray_source_params # <<>>
             /\ ret[1].xray_source_params[1].kvp =
                    FirstSourceKvp(FirstChildren, Greatest(ParamsWithSource(FirstChildren)))

\* source parameters directly under the acquisition and then two
\* acquisition-parameters containers, the second with two source-parameters
\* containers: the first of the second is taken
C28_Witness ==
    /\ pc = "done"
    /\ Len(FirstChildren) = 3
    /\ FirstChildren[1].ConceptNameCodeSequence = <<"113831">>
    /\ ParamsWithSource(FirstChildren) = {2, 3}
    /\ ret[1].xray_source_params # <<>>
    /\ ret[1].xray_source_params[1].kvp = "90 kV"

\* the dose sub-containers of the children: coded 113829, with a ContentSequence
DoseContainers(children) ==
    {p \in ChildPlaces(children, CT_codes.ct_dose) : children[p].HasContentSequence}

\* the value and unit of the first child with the code, "" when there is none
FirstLeaf(content_sequence, code_value) ==
    IF ChildPlaces(content_sequence, code_value) = {} THEN ""
    ELSE LET leaf == content_sequence[Nth(ChildPlaces(content_sequence, code_value), 1)]
         IN  leaf.MeasuredValueSequence[1].NumericValue \o " "
             \o leaf.MeasuredValueSequence[1].MeasurementUnitsCodeSequence[1]

\* C29: when a CT acquisition container holds more than one dose
\* sub-container (113829), the record's ct_dose is the extraction of the last
\* one in encounter order (each later sub-container replaces the whole
\* sub-record of the earlier one), while every leaf field inside a
\* sub-container comes from the first child with the matching code.
C29_LastDoseContainerFirstLeaf ==
    pc = "done" /\ DoseContainers(FirstChildren) # {} =>
        LET last == FirstChildren[Greatest(DoseContainers(FirstChildren))].ContentSequence
        IN  /\ ret[1].ct_dose # <<>>
            /\ ret[1].ct_dose[1].mean_ctdivol = FirstLeaf(last, CT_codes.mean_ctdivol)
            /\ ret[1].ct_dose[1].dlp = FirstLeaf(last, CT_codes.dlp)

\* a dose container with CTDIvol 1 and DLP 100, then one with CTDIvol 2 and
\* CTDIvol 3: the record has CTDIvol 2 and no DLP
C29_Witness ==
    /\ pc = "done"
    /\ Cardinality(DoseContainers(FirstChildren)) = 2
    /\ FirstLeaf(FirstChildren[Nth(DoseContainers(FirstChildren), 1)].ContentSequence,
                 CT_codes.dlp) = "100 mGy.cm"
    /\ ret[1].ct_dose # <<>>
    /\ ret[1].ct_dose[1].mean_ctdivol = "2 mGy"
    /\ ret[1].ct_dose[1].dlp = ""

====
